---- MODULE Spec2Model ----
(***************************************************************************)
(* Banking-System-JS: the transaction-and-policy engine.                   *)
(*                                                                         *)
(* The registry (accountStore.js), the ledger operations                   *)
(* (transactionService.js), interest accrual (interestService.js and the   *)
(* bundled browser copy) and the policy layer (securityService.js) as one  *)
(* state machine.  Each action is one call of one exported function, run   *)
(* to completion (JavaScript is single threaded and nothing yields).       *)
(*                                                                         *)
(* JavaScript numbers are modelled as tagged values: a finite number is a  *)
(* fixed-point integer counting 1/Unit of a currency unit, and Infinity,   *)
(* -Infinity and NaN are values of their own with IEEE-754 arithmetic and  *)
(* comparison.  Sums and differences of finite numbers are exact; the      *)
(* interest product is rounded to the fixed-point grid (the code rounds    *)
(* it to the nearest double).                                              *)
(***************************************************************************)
EXTENDS Integers, Sequences, FiniteSets, TLC

VARIABLES
  accounts,  \* accountStore.js: the module-level array of account objects
  now,       \* the wall clock read by new Date(), in ms
  variant,   \* which copy of the engine is loaded: "backend" or "browser"
  last       \* outcome of the latest call: its name, the error thrown, the value returned

vars == <<accounts, now, variant, last>>

----------------------------------------------------------------------------
(* JavaScript values                                                       *)

Unit == 100000

Num(n) == [k |-> "num", v |-> n]

Dollars(n) == Num(n * Unit)

PosInf == [k |-> "inf", v |-> 1]

NegInf == [k |-> "inf", v |-> -1]

NaN == [k |-> "nan", v |-> 0]

\* any value whose typeof is not "number" (undefined, a string, an object)
NotANumber == [k |-> "other", v |-> 0]

\* IEEE-754 addition
Add(a, b) ==
  IF a.k = "nan" \/ b.k = "nan" THEN NaN
  ELSE IF a.k = "inf" /\ b.k = "inf" THEN (IF a.v = b.v THEN a ELSE NaN)
  ELSE IF a.k = "inf" THEN a
  ELSE IF b.k = "inf" THEN b
  ELSE Num(a.v + b.v)

Negate(a) == IF a.k = "nan" THEN NaN ELSE [k |-> a.k, v |-> 0 - a.v]

Sub(a, b) == Add(a, Negate(b))

\* IEEE-754 a > b: false as soon as one side is NaN
Gt(a, b) ==
  IF a.k = "nan" \/ b.k = "nan" THEN FALSE
  ELSE IF a.k = "inf" /\ b.k = "inf" THEN a.v > b.v
  ELSE IF a.k = "inf" THEN a.v > 0
  ELSE IF b.k = "inf" THEN b.v < 0
  ELSE a.v > b.v

Lt(a, b) == Gt(b, a)

\* IEEE-754 a <= b
Le(a, b) == a.k # "nan" /\ b.k # "nan" /\ ~Gt(a, b)

\* balance * 0.00167, computed in two halves to stay inside 32 bits and
\* truncated to the fixed-point grid
InterestOf(a) ==
  IF a.k = "nan" THEN NaN
  ELSE IF a.k = "inf" THEN a
  ELSE LET m == IF a.v < 0 THEN 0 - a.v ELSE a.v
           p == (m \div Unit) * 167 + ((m % Unit) * 167) \div 100000
       IN  Num(IF a.v < 0 THEN 0 - p ELSE p)

\* A JavaScript value that may be a string: str says whether typeof is
\* "string", s is its characters.
Str(chars) == [str |-> TRUE, s |-> chars]

NotAString == [str |-> FALSE, s |-> <<>>]

RECURSIVE TrimStart(_)
TrimStart(s) ==
  IF s # <<>> /\ Head(s) = " " THEN TrimStart(Tail(s)) ELSE s

RECURSIVE TrimEnd(_)
TrimEnd(s) ==
  IF s # <<>> /\ s[Len(s)] = " " THEN TrimEnd(SubSeq(s, 1, Len(s) - 1)) ELSE s

\* String.prototype.trim
Trim(s) == TrimEnd(TrimStart(s))

LowerLetters ==
  <<"a", "b", "c", "d", "e", "f", "g", "h", "i", "j", "k", "l", "m",
    "n", "o", "p", "q", "r", "s", "t", "u", "v", "w", "x", "y", "z">>

UpperLetters ==
  <<"A", "B", "C", "D", "E", "F", "G", "H", "I", "J", "K", "L", "M",
    "N", "O", "P", "Q", "R", "S", "T", "U", "V", "W", "X", "Y", "Z">>

UpperChar(c) ==
  IF \E i \in 1..26 : LowerLetters[i] = c
  THEN UpperLetters[CHOOSE i \in 1..26 : LowerLetters[i] = c]
  ELSE c

\* String.prototype.toUpperCase
ToUpperCase(s) == [i \in 1..Len(s) |-> UpperChar(s[i])]

----------------------------------------------------------------------------
(* Dates                                                                   *)

DayMs == 24 * 60 * 60 * 1000

\* new Date(ms).toISOString(): the calendar day (the first ten characters)
\* and the time of day
ToISOString(ms) == [day |-> ms \div DayMs, time |-> ms % DayMs]

\* new Date(iso).getTime()
GetTime(iso) == iso.day * DayMs + iso.time

\* String(date).slice(0, 10)
DateKey(iso) == iso.day

----------------------------------------------------------------------------
(* validators.js                                                           *)

\* returns [err, value]: the error thrown ("" if none) and the trimmed string
requireNonEmptyString(value, fieldName) ==
  IF ~value.str THEN [err |-> fieldName \o " must be a string.", value |-> <<>>]
  ELSE IF Trim(value.s) = <<>> THEN [err |-> fieldName \o " is required.", value |-> <<>>]
  ELSE [err |-> "", value |-> Trim(value.s)]

\* returns the error thrown, "" if none
requirePositiveNumber(value, fieldName) ==
  IF value.k = "other" \/ value.k = "nan" THEN fieldName \o " must be a number."
  ELSE IF Le(value, Num(0)) THEN fieldName \o " must be greater than zero."
  ELSE ""

----------------------------------------------------------------------------
(* Account objects.  A field the code has not yet assigned is absent from  *)
(* the record.                                                             *)

HasTransactions(account) == "transactions" \in DOMAIN account

Transactions(account) ==
  IF HasTransactions(account) THEN account.transactions ELSE <<>>

HasStatus(account) == "status" \in DOMAIN account

Status(account) == IF HasStatus(account) THEN account.status ELSE "ACTIVE"

HasStatusHistory(account) == "statusHistory" \in DOMAIN account

StatusHistory(account) ==
  IF HasStatusHistory(account) THEN account.statusHistory ELSE <<>>

\* account.<field> = value, creating the field when absent
SetField(account, field, value) ==
  [f \in DOMAIN account \cup {field} |-> IF f = field THEN value ELSE account[f]]

\* transactionService.js ensureTransactions
ensureTransactions(account) ==
  IF HasTransactions(account) THEN account
  ELSE SetField(account, "transactions", <<>>)

\* transactions.unshift in place of transactions.push
PushAtFront(account, transaction) ==
  SetField(account, "transactions", <<transaction>> \o Transactions(account))

Push(account, transaction) ==
  SetField(account, "transactions", Append(Transactions(account), transaction))

\* what a call leaves behind: the error it threw ("" if it returned), the
\* registry as the call left it, and the value it returned
Outcome(err, accs, ret) == [err |-> err, accounts |-> accs, ret |-> ret]

NoValue == [none |-> TRUE]

\* the {accountNumber, balance, transactions} summaries the ledger returns;
\* transactions is the account's own array, so it is read from the account
Summary(account) ==
  [accountNumber |-> account.accountNumber, balance |-> account.balance]

----------------------------------------------------------------------------
(* accountStore.js                                                         *)

\* floor(Math.random() * 9000000000) is a value 0..8999999999, held as the
\* pair <<hi, lo>> with value hi * 100000 + lo, hi in 0..89999, lo in 0..99999

Digits5(n) ==
  <<n \div 10000, (n \div 1000) % 10, (n \div 100) % 10, (n \div 10) % 10, n % 10>>

\* String(sample + 1000000000): the ten decimal digits
AccountNumberOf(sample) == Digits5(sample[1] + 10000) \o Digits5(sample[2])

\* generateUniqueAccountNumber without the test of the loop: the first
\* sample is returned whether an account holds it or not
generateAccountNumberUnchecked(accs, samples) == AccountNumberOf(Head(samples))

\* the do-while loop of generateUniqueAccountNumber run on the successive
\* values of Math.random(): <<>> when every sample collides (the loop goes on)
RECURSIVE generateUniqueAccountNumber(_, _)
generateUniqueAccountNumber(accs, samples) ==
  IF samples = <<>> THEN <<>>
  ELSE LET accountNumber == AccountNumberOf(Head(samples))
       IN  IF \E i \in 1..Len(accs) : accs[i].accountNumber = accountNumber
           THEN generateUniqueAccountNumber(accs, Tail(samples))
           ELSE accountNumber

Null == [null |-> TRUE]

generateBankAccount(accs, accountData, samples, date) ==
  IF accountData = Null THEN Outcome("Account data is required.", accs, NoValue)
  ELSE LET firstName == requireNonEmptyString(accountData.firstName, "First name")
           lastName == requireNonEmptyString(accountData.lastName, "Last name")
           initialDeposit == accountData.initialDeposit
       IN  IF firstName.err # "" THEN Outcome(firstName.err, accs, NoValue)
           ELSE IF lastName.err # "" THEN Outcome(lastName.err, accs, NoValue)
           ELSE IF initialDeposit.k = "other" \/ initialDeposit.k = "nan"
             THEN Outcome("Initial deposit must be a number.", accs, NoValue)
           ELSE IF Lt(initialDeposit, Dollars(50))
             THEN Outcome("The initial deposit must be at least $50.", accs, NoValue)
           ELSE LET newAccount ==
                      [accountNumber |-> generateUniqueAccountNumber(accs, samples),
                       firstName |-> firstName.value,
                       lastName |-> lastName.value,
                       balance |-> initialDeposit,
                       createdAt |-> date]
                IN  Outcome("", Append(accs, newAccount), newAccount)

----------------------------------------------------------------------------
(* transactionService.js                                                   *)

addDeposit(accs, i, amount, date) ==
  LET err == requirePositiveNumber(amount, "Deposit amount")
      account == ensureTransactions(accs[i])
      transaction ==
        [type |-> "DEPOSIT", amount |-> amount, date |-> date,
         newBalance |-> Add(account.balance, amount)]
      pushed == Push(account, transaction)
      updated == SetField(pushed, "balance", Add(pushed.balance, amount))
  IN  IF err # "" THEN Outcome(err, accs, NoValue)
      ELSE Outcome("", [accs EXCEPT ![i] = updated], Summary(updated))

\* withdrawal with a floor: an account already overdrawn is refused
withdrawalWithFloor(accs, i, amount, date) ==
  LET err == requirePositiveNumber(amount, "Withdrawal amount")
      account == ensureTransactions(accs[i])
      penalty == Dollars(5)
      charged == SetField(account, "balance", Sub(account.balance, penalty))
      overdraft ==
        Push(charged,
             [type |-> "OVERDRAFT_ATTEMPT", amount |-> amount, date |-> date,
              penalty |-> penalty, newBalance |-> charged.balance])
      debited == SetField(account, "balance", Sub(account.balance, amount))
      withdrawn ==
        Push(debited,
             [type |-> "WITHDRAWAL", amount |-> amount, date |-> date,
              newBalance |-> debited.balance])
  IN  IF err # "" THEN Outcome(err, accs, NoValue)
      ELSE IF Lt(account.balance, Num(0))
        THEN Outcome("Insufficient funds.", accs, NoValue)
      ELSE IF Gt(amount, account.balance)
        THEN Outcome("", [accs EXCEPT ![i] = overdraft], Summary(overdraft))
      ELSE Outcome("", [accs EXCEPT ![i] = withdrawn], Summary(withdrawn))

\* withdrawal with the return of the penalty branch left out: the penalty
\* is charged and the withdrawal is applied all the same
withdrawalFallsThrough(accs, i, amount, date) ==
  LET err == requirePositiveNumber(amount, "Withdrawal amount")
      account == ensureTransactions(accs[i])
      penalty == Dollars(5)
      charged == SetField(account, "balance", Sub(account.balance, penalty))
      overdraft ==
        Push(charged,
             [type |-> "OVERDRAFT_ATTEMPT", amount |-> amount, date |-> date,
              penalty |-> penalty, newBalance |-> charged.balance])
      start == IF Gt(amount, account.balance) THEN overdraft ELSE account
      debited == SetField(start, "balance", Sub(start.balance, amount))
      withdrawn ==
        Push(debited,
             [type |-> "WITHDRAWAL", amount |-> amount, date |-> date,
              newBalance |-> debited.balance])
  IN  IF err # "" THEN Outcome(err, accs, NoValue)
      ELSE Outcome("", [accs EXCEPT ![i] = withdrawn], Summary(withdrawn))

\* withdrawal with the test amount >= balance: the whole balance cannot be
\* withdrawn without the penalty
withdrawalPenaltyAtEquality(accs, i, amount, date) ==
  LET err == requirePositiveNumber(amount, "Withdrawal amount")
      account == ensureTransactions(accs[i])
      penalty == Dollars(5)
      charged == SetField(account, "balance", Sub(account.balance, penalty))
      overdraft ==
        Push(charged,
             [type |-> "OVERDRAFT_ATTEMPT", amount |-> amount, date |-> date,
              penalty |-> penalty, newBalance |-> charged.balance])
      debited == SetField(account, "balance", Sub(account.balance, amount))
      withdrawn ==
        Push(debited,
             [type |-> "WITHDRAWAL", amount |-> amount, date |-> date,
              newBalance |-> debited.balance])
  IN  IF err # "" THEN Outcome(err, accs, NoValue)
      ELSE IF Gt(amount, account.balance) \/ amount = account.balance
        THEN Outcome("", [accs EXCEPT ![i] = overdraft], Summary(overdraft))
      ELSE Outcome("", [accs EXCEPT ![i] = withdrawn], Summary(withdrawn))

withdrawal(accs, i, amount, date) ==
  LET err == requirePositiveNumber(amount, "Withdrawal amount")
      account == ensureTransactions(accs[i])
      penalty == Dollars(5)
      charged == SetField(account, "balance", Sub(account.balance, penalty))
      overdraft ==
        Push(charged,
             [type |-> "OVERDRAFT_ATTEMPT", amount |-> amount, date |-> date,
              penalty |-> penalty, newBalance |-> charged.balance])
      debited == SetField(account, "balance", Sub(account.balance, amount))
      withdrawn ==
        Push(debited,
             [type |-> "WITHDRAWAL", amount |-> amount, date |-> date,
              newBalance |-> debited.balance])
  IN  IF err # "" THEN Outcome(err, accs, NoValue)
      ELSE IF Gt(amount, account.balance)
        THEN Outcome("", [accs EXCEPT ![i] = overdraft], Summary(overdraft))
      ELSE Outcome("", [accs EXCEPT ![i] = withdrawn], Summary(withdrawn))

\* the two sides of a transfer, applied one after the other to the registry
TransferApplied(accs, from, to, amount, date) ==
  LET a1 == [accs EXCEPT ![from] = ensureTransactions(@)]
      a2 == [a1 EXCEPT ![to] = ensureTransactions(@)]
      a3 == [a2 EXCEPT ![from] = SetField(@, "balance", Sub(@.balance, amount))]
      a4 == [a3 EXCEPT ![from] =
               Push(@, [type |-> "TRANSFER_OUT", to |-> a3[to].accountNumber,
                        amount |-> amount, date |-> date,
                        newBalance |-> a3[from].balance])]
      a5 == [a4 EXCEPT ![to] = SetField(@, "balance", Add(@.balance, amount))]
  IN  [a5 EXCEPT ![to] =
         Push(@, [type |-> "TRANSFER_IN", from |-> a5[from].accountNumber,
                  amount |-> amount, date |-> date,
                  newBalance |-> a5[to].balance])]

\* transferMoney without the test of the funds
transferMoneyUnchecked(accs, from, to, amount, date) ==
  LET err == requirePositiveNumber(amount, "Amount")
      done == TransferApplied(accs, from, to, amount, date)
  IN  IF from = 0 \/ to = 0 THEN Outcome("Account must be available!", accs, NoValue)
      ELSE IF err # "" THEN Outcome(err, accs, NoValue)
      ELSE Outcome("", done, <<Summary(done[from]), Summary(done[to])>>)

\* transferMoney charging the overdraft penalty of withdrawal before it
\* refuses a transfer for insufficient funds
transferMoneyChargesPenalty(accs, from, to, amount, date) ==
  LET err == requirePositiveNumber(amount, "Amount")
      done == TransferApplied(accs, from, to, amount, date)
      charged ==
        [accs EXCEPT ![from] = SetField(@, "balance", Sub(@.balance, Dollars(5)))]
  IN  IF from = 0 \/ to = 0 THEN Outcome("Account must be available!", accs, NoValue)
      ELSE IF err # "" THEN Outcome(err, accs, NoValue)
      ELSE IF Gt(amount, accs[from].balance)
        THEN Outcome("Insufficient funds for transfer.", charged, NoValue)
      ELSE Outcome("", done, <<Summary(done[from]), Summary(done[to])>>)

\* from and to index the registry; 0 stands for a missing account (undefined).
\* The two accounts may be the same object, so the four mutations are applied
\* one after the other to the registry.
transferMoney(accs, from, to, amount, date) ==
  LET err == requirePositiveNumber(amount, "Amount")
      done == TransferApplied(accs, from, to, amount, date)
  IN  IF from = 0 \/ to = 0 THEN Outcome("Account must be available!", accs, NoValue)
      ELSE IF err # "" THEN Outcome(err, accs, NoValue)
      ELSE IF Gt(amount, accs[from].balance)
        THEN Outcome("Insufficient funds for transfer.", accs, NoValue)
      ELSE Outcome("", done, <<Summary(done[from]), Summary(done[to])>>)

----------------------------------------------------------------------------
(* interestService.js, and calculateSaving of the bundled browser copy     *)

\* calculateSaving of the backend paying interest on a balance of exactly 500
calculateSavingBackendFrom500(accs, i, date) ==
  LET account == ensureTransactions(accs[i])
      interestAmount == InterestOf(account.balance)
      newTrans ==
        [type |-> "INTEREST", amount |-> interestAmount, date |-> date,
         newBalance |-> Add(account.balance, interestAmount)]
      pushed == Push(account, newTrans)
  IN  IF Lt(account.balance, Dollars(500))
      THEN Outcome("", [accs EXCEPT ![i] = account], Summary(account))
      ELSE Outcome("", [accs EXCEPT ![i] = pushed],
                   [accountNumber |-> pushed.accountNumber,
                    balance |-> Add(pushed.balance, interestAmount)])

\* src/services/interestService.js: the modular backend
calculateSavingBackend(accs, i, date) ==
  LET account == ensureTransactions(accs[i])
      interestAmount == InterestOf(account.balance)
      newTrans ==
        [type |-> "INTEREST", amount |-> interestAmount, date |-> date,
         newBalance |-> Add(account.balance, interestAmount)]
      pushed == Push(account, newTrans)
  IN  IF Le(account.balance, Dollars(500))
      THEN Outcome("", [accs EXCEPT ![i] = account], Summary(account))
      ELSE Outcome("", [accs EXCEPT ![i] = pushed],
                   [accountNumber |-> pushed.accountNumber,
                    balance |-> Add(pushed.balance, interestAmount)])

\* the browser bundle
calculateSavingBrowser(accs, i, date) ==
  LET account == ensureTransactions(accs[i])
      interest == InterestOf(account.balance)
      pushed ==
        Push(account,
             [type |-> "INTEREST", amount |-> interest, date |-> date,
              newBalance |-> Add(account.balance, interest)])
      updated == SetField(pushed, "balance", Add(pushed.balance, interest))
  IN  IF Le(account.balance, Dollars(500))
      THEN Outcome("", [accs EXCEPT ![i] = account],
                   [accountNumber |-> account.accountNumber,
                    balance |-> account.balance,
                    message |-> TRUE])
      ELSE Outcome("", [accs EXCEPT ![i] = updated],
                   [accountNumber |-> updated.accountNumber,
                    balance |-> updated.balance,
                    interestApplied |-> interest])

calculateSaving(impl, accs, i, date) ==
  IF impl = "browser" THEN calculateSavingBrowser(accs, i, date)
  ELSE calculateSavingBackend(accs, i, date)

----------------------------------------------------------------------------
(* transactionService.js: retrieveTransactionsInRange                      *)

\* parseBoundaryMs resolving every bare date to the start of its day
parseBoundaryMsStartOfDay(value, isEndOfDay) ==
  IF value.kind = "absent" THEN [err |-> "", bounded |-> FALSE, ms |-> 0]
  ELSE IF value.kind = "dateOnly"
    THEN [err |-> "", bounded |-> TRUE, ms |-> value.day * DayMs]
  ELSE IF value.kind = "iso"
    THEN [err |-> "", bounded |-> TRUE, ms |-> GetTime(value.iso)]
  ELSE [err |-> "Invalid date", bounded |-> FALSE, ms |-> 0]

\* A date bound of the options object is one of
\*   [kind |-> "absent"]               undefined, null or ""
\*   [kind |-> "dateOnly", day |-> d]  a bare YYYY-MM-DD string
\*   [kind |-> "iso", iso |-> i]       any other parsable string
\*   [kind |-> "invalid"]              a string new Date() cannot parse
\* returns [err, ms], bounded FALSE standing for the null of the code
parseBoundaryMs(value, isEndOfDay) ==
  IF value.kind = "absent" THEN [err |-> "", bounded |-> FALSE, ms |-> 0]
  ELSE IF value.kind = "dateOnly"
    THEN [err |-> "", bounded |-> TRUE,
          ms |-> value.day * DayMs
                 + (IF isEndOfDay
                    THEN 23 * 3600000 + 59 * 60000 + 59 * 1000 + 999
                    ELSE 0)]
  ELSE IF value.kind = "iso"
    THEN [err |-> "", bounded |-> TRUE, ms |-> GetTime(value.iso)]
  ELSE [err |-> "Invalid date", bounded |-> FALSE, ms |-> 0]

\* the characters of a transaction's type
TypeChars(type) ==
  CASE type = "DEPOSIT" -> <<"D", "E", "P", "O", "S", "I", "T">>
    [] type = "WITHDRAWAL" -> <<"W", "I", "T", "H", "D", "R", "A", "W", "A", "L">>
    [] type = "OVERDRAFT_ATTEMPT" ->
         <<"O", "V", "E", "R", "D", "R", "A", "F", "T", "_",
           "A", "T", "T", "E", "M", "P", "T">>
    [] type = "TRANSFER_OUT" ->
         <<"T", "R", "A", "N", "S", "F", "E", "R", "_", "O", "U", "T">>
    [] type = "TRANSFER_IN" ->
         <<"T", "R", "A", "N", "S", "F", "E", "R", "_", "I", "N">>
    [] type = "INTEREST" -> <<"I", "N", "T", "E", "R", "E", "S", "T">>

\* (a, b) => getTime(b.date) - getTime(a.date) is negative: a sorts first
NewerFirst(a, b) == GetTime(a.date) > GetTime(b.date)

\* insert t behind every entry that does not sort after it (stable)
RECURSIVE InsertSorted(_, _)
InsertSorted(sorted, t) ==
  IF sorted = <<>> THEN <<t>>
  ELSE IF NewerFirst(t, Head(sorted)) THEN <<t>> \o sorted
  ELSE <<Head(sorted)>> \o InsertSorted(Tail(sorted), t)

\* Array.prototype.sort with the comparator of the code, stable as
\* ECMAScript requires
RECURSIVE SortNewestFirst(_)
SortNewestFirst(seq) ==
  IF seq = <<>> THEN <<>>
  ELSE InsertSorted(SortNewestFirst(SubSeq(seq, 1, Len(seq) - 1)), seq[Len(seq)])

\* retrieveTransactionsInRange without the sort: the entries kept come in
\* the order of the history
retrieveTransactionsInRangeUnsorted(impl, accs, i, options) ==
  IF i = 0 THEN Outcome("Account is required.", accs, NoValue)
  ELSE
    LET account == ensureTransactions(accs[i])
        ensured == [accs EXCEPT ![i] = account]
        start == parseBoundaryMs(options.startDate, FALSE)
        end == parseBoundaryMs(options.endDate, TRUE)
        noFilter == \/ ~options.type.str
                    \/ (impl = "browser" /\ options.type.s = <<>>)
        required == requireNonEmptyString(options.type, "Type")
        normalizedType == ToUpperCase(required.value)
        Keep(t) ==
          /\ noFilter \/ ToUpperCase(TypeChars(t.type)) = normalizedType
          /\ ~start.bounded \/ GetTime(t.date) >= start.ms
          /\ ~end.bounded \/ GetTime(t.date) <= end.ms
    IN  IF start.err # "" THEN Outcome(start.err, ensured, NoValue)
        ELSE IF end.err # "" THEN Outcome(end.err, ensured, NoValue)
        ELSE IF start.bounded /\ end.bounded /\ start.ms > end.ms
          THEN Outcome("startDate must be on/before endDate.", ensured, NoValue)
        ELSE IF ~noFilter /\ required.err # ""
          THEN Outcome(required.err, ensured, NoValue)
        ELSE Outcome("", ensured, SelectSeq(account.transactions, Keep))

\* retrieveTransactionsInRange sorting the account's own array before it
\* filters: Array.prototype.sort reorders the array it is called on
retrieveTransactionsInRangeSortsInPlace(impl, accs, i, options) ==
  IF i = 0 THEN Outcome("Account is required.", accs, NoValue)
  ELSE
    LET account == ensureTransactions(accs[i])
        ensured == [accs EXCEPT ![i] = account]
        start == parseBoundaryMs(options.startDate, FALSE)
        end == parseBoundaryMs(options.endDate, TRUE)
        noFilter == \/ ~options.type.str
                    \/ (impl = "browser" /\ options.type.s = <<>>)
        required == requireNonEmptyString(options.type, "Type")
        normalizedType == ToUpperCase(required.value)
        Keep(t) ==
          /\ noFilter \/ ToUpperCase(TypeChars(t.type)) = normalizedType
          /\ ~start.bounded \/ GetTime(t.date) >= start.ms
          /\ ~end.bounded \/ GetTime(t.date) <= end.ms
        sorted == SetField(account, "transactions",
                           SortNewestFirst(account.transactions))
    IN  IF start.err # "" THEN Outcome(start.err, ensured, NoValue)
        ELSE IF end.err # "" THEN Outcome(end.err, ensured, NoValue)
        ELSE IF start.bounded /\ end.bounded /\ start.ms > end.ms
          THEN Outcome("startDate must be on/before endDate.", ensured, NoValue)
        ELSE IF ~noFilter /\ required.err # ""
          THEN Outcome(required.err, ensured, NoValue)
        ELSE Outcome("", [accs EXCEPT ![i] = sorted],
                     SelectSeq(sorted.transactions, Keep))

\* retrieveTransactionsInRange leaving out a transaction dated at the end
\* bound itself
retrieveTransactionsInRangeEndExcluded(impl, accs, i, options) ==
  IF i = 0 THEN Outcome("Account is required.", accs, NoValue)
  ELSE
    LET account == ensureTransactions(accs[i])
        ensured == [accs EXCEPT ![i] = account]
        start == parseBoundaryMs(options.startDate, FALSE)
        end == parseBoundaryMs(options.endDate, TRUE)
        noFilter == \/ ~options.type.str
                    \/ (impl = "browser" /\ options.type.s = <<>>)
        required == requireNonEmptyString(options.type, "Type")
        normalizedType == ToUpperCase(required.value)
        Keep(t) ==
          /\ noFilter \/ ToUpperCase(TypeChars(t.type)) = normalizedType
          /\ ~start.bounded \/ GetTime(t.date) >= start.ms
          /\ ~end.bounded \/ GetTime(t.date) < end.ms
    IN  IF start.err # "" THEN Outcome(start.err, ensured, NoValue)
        ELSE IF end.err # "" THEN Outcome(end.err, ensured, NoValue)
        ELSE IF start.bounded /\ end.bounded /\ start.ms > end.ms
          THEN Outcome("startDate must be on/before endDate.", ensured, NoValue)
        ELSE IF ~noFilter /\ required.err # ""
          THEN Outcome(required.err, ensured, NoValue)
        ELSE Outcome("", ensured, SortNewestFirst(SelectSeq(account.transactions, Keep)))

\* i = 0 stands for a missing account.  type is Str(..) or NotAString
\* (undefined or null).
retrieveTransactionsInRange(impl, accs, i, options) ==
  IF i = 0 THEN Outcome("Account is required.", accs, NoValue)
  ELSE
    LET account == ensureTransactions(accs[i])
        ensured == [accs EXCEPT ![i] = account]
        start == parseBoundaryMs(options.startDate, FALSE)
        end == parseBoundaryMs(options.endDate, TRUE)
        noFilter == \/ ~options.type.str
                    \/ (impl = "browser" /\ options.type.s = <<>>)
        required == requireNonEmptyString(options.type, "Type")
        normalizedType == ToUpperCase(required.value)
        Keep(t) ==
          /\ noFilter \/ ToUpperCase(TypeChars(t.type)) = normalizedType
          /\ ~start.bounded \/ GetTime(t.date) >= start.ms
          /\ ~end.bounded \/ GetTime(t.date) <= end.ms
    IN  IF start.err # "" THEN Outcome(start.err, ensured, NoValue)
        ELSE IF end.err # "" THEN Outcome(end.err, ensured, NoValue)
        ELSE IF start.bounded /\ end.bounded /\ start.ms > end.ms
          THEN Outcome("startDate must be on/before endDate.", ensured, NoValue)
        ELSE IF ~noFilter /\ required.err # ""
          THEN Outcome(required.err, ensured, NoValue)
        ELSE Outcome("", ensured, SortNewestFirst(SelectSeq(account.transactions, Keep)))

----------------------------------------------------------------------------
(* securityService.js                                                      *)

\* if (!account.status) account.status = "ACTIVE"
ensureStatus(account) ==
  IF HasStatus(account) THEN account ELSE SetField(account, "status", "ACTIVE")

ensureStatusHistory(account) ==
  IF HasStatusHistory(account) THEN account
  ELSE SetField(account, "statusHistory", <<>>)

FREEZE == <<"F", "R", "E", "E", "Z", "E">>

UNFREEZE == <<"U", "N", "F", "R", "E", "E", "Z", "E">>

\* updateAccountStatus testing the manager approval after the change of
\* status instead of before it
updateAccountStatusChecksLate(accs, i, action, managerId, date) ==
  IF i = 0 THEN Outcome("Account is required.", accs, NoValue)
  ELSE
    LET account == ensureStatusHistory(ensureStatus(accs[i]))
        ensured == [accs EXCEPT ![i] = account]
        required == requireNonEmptyString(action, "Action")
        normalizedAction == ToUpperCase(required.value)
        hasManagerApproval == managerId.str /\ Len(Trim(managerId.s)) > 0
        nextStatus == IF normalizedAction = FREEZE THEN "FROZEN" ELSE "ACTIVE"
        changed ==
          SetField(SetField(account, "status", nextStatus), "statusHistory",
                   Append(account.statusHistory,
                          [action |-> normalizedAction,
                           by |-> IF hasManagerApproval THEN Trim(managerId.s)
                                  ELSE <<"s", "y", "s", "t", "e", "m">>,
                           date |-> date]))
        result == IF account.status # nextStatus THEN changed ELSE account
    IN  IF required.err # "" THEN Outcome(required.err, ensured, NoValue)
        ELSE IF normalizedAction # FREEZE /\ normalizedAction # UNFREEZE
          THEN Outcome("Action must be \"FREEZE\" or \"UNFREEZE\".", ensured, NoValue)
        ELSE IF normalizedAction = FREEZE /\ ~hasManagerApproval
          THEN Outcome("Manager approval is required to freeze an account.",
                       [accs EXCEPT ![i] = result], NoValue)
        ELSE Outcome("", [accs EXCEPT ![i] = result],
                     [accountNumber |-> result.accountNumber,
                      status |-> result.status])

\* updateAccountStatus without the test account.status !== nextStatus: every
\* accepted request is recorded
updateAccountStatusAlwaysRecords(accs, i, action, managerId, date) ==
  IF i = 0 THEN Outcome("Account is required.", accs, NoValue)
  ELSE
    LET account == ensureStatusHistory(ensureStatus(accs[i]))
        ensured == [accs EXCEPT ![i] = account]
        required == requireNonEmptyString(action, "Action")
        normalizedAction == ToUpperCase(required.value)
        hasManagerApproval == managerId.str /\ Len(Trim(managerId.s)) > 0
        nextStatus == IF normalizedAction = FREEZE THEN "FROZEN" ELSE "ACTIVE"
        changed ==
          SetField(SetField(account, "status", nextStatus), "statusHistory",
                   Append(account.statusHistory,
                          [action |-> normalizedAction,
                           by |-> IF hasManagerApproval THEN Trim(managerId.s)
                                  ELSE <<"s", "y", "s", "t", "e", "m">>,
                           date |-> date]))
    IN  IF required.err # "" THEN Outcome(required.err, ensured, NoValue)
        ELSE IF normalizedAction = FREEZE /\ ~hasManagerApproval
          THEN Outcome("Manager approval is required to freeze an account.",
                       ensured, NoValue)
        ELSE IF normalizedAction # FREEZE /\ normalizedAction # UNFREEZE
          THEN Outcome("Action must be \"FREEZE\" or \"UNFREEZE\".", ensured, NoValue)
        ELSE Outcome("", [accs EXCEPT ![i] = changed],
                     [accountNumber |-> changed.accountNumber,
                      status |-> changed.status])

\* updateAccountStatus asking the manager approval for every action
updateAccountStatusApprovalForAll(accs, i, action, managerId, date) ==
  IF i = 0 THEN Outcome("Account is required.", accs, NoValue)
  ELSE
    LET account == ensureStatusHistory(ensureStatus(accs[i]))
        ensured == [accs EXCEPT ![i] = account]
        required == requireNonEmptyString(action, "Action")
        normalizedAction == ToUpperCase(required.value)
        hasManagerApproval == managerId.str /\ Len(Trim(managerId.s)) > 0
        nextStatus == IF normalizedAction = FREEZE THEN "FROZEN" ELSE "ACTIVE"
        changed ==
          SetField(SetField(account, "status", nextStatus), "statusHistory",
                   Append(account.statusHistory,
                          [action |-> normalizedAction,
                           by |-> IF hasManagerApproval THEN Trim(managerId.s)
                                  ELSE <<"s", "y", "s", "t", "e", "m">>,
                           date |-> date]))
        result == IF account.status # nextStatus THEN changed ELSE account
    IN  IF required.err # "" THEN Outcome(required.err, ensured, NoValue)
        ELSE IF ~hasManagerApproval
          THEN Outcome("Manager approval is required to freeze an account.",
                       ensured, NoValue)
        ELSE IF normalizedAction # FREEZE /\ normalizedAction # UNFREEZE
          THEN Outcome("Action must be \"FREEZE\" or \"UNFREEZE\".", ensured, NoValue)
        ELSE Outcome("", [accs EXCEPT ![i] = result],
                     [accountNumber |-> result.accountNumber,
                      status |-> result.status])

\* updateAccountStatus answering a request for the status the account
\* already has before it looks at the manager approval
updateAccountStatusNoOpFirst(accs, i, action, managerId, date) ==
  IF i = 0 THEN Outcome("Account is required.", accs, NoValue)
  ELSE
    LET account == ensureStatusHistory(ensureStatus(accs[i]))
        ensured == [accs EXCEPT ![i] = account]
        required == requireNonEmptyString(action, "Action")
        normalizedAction == ToUpperCase(required.value)
        hasManagerApproval == managerId.str /\ Len(Trim(managerId.s)) > 0
        nextStatus == IF normalizedAction = FREEZE THEN "FROZEN" ELSE "ACTIVE"
        changed ==
          SetField(SetField(account, "status", nextStatus), "statusHistory",
                   Append(account.statusHistory,
                          [action |-> normalizedAction,
                           by |-> IF hasManagerApproval THEN Trim(managerId.s)
                                  ELSE <<"s", "y", "s", "t", "e", "m">>,
                           date |-> date]))
    IN  IF required.err # "" THEN Outcome(required.err, ensured, NoValue)
        ELSE IF normalizedAction # FREEZE /\ normalizedAction # UNFREEZE
          THEN Outcome("Action must be \"FREEZE\" or \"UNFREEZE\".", ensured, NoValue)
        ELSE IF account.status = nextStatus
          THEN Outcome("", ensured,
                       [accountNumber |-> account.accountNumber,
                        status |-> account.status])
        ELSE IF normalizedAction = FREEZE /\ ~hasManagerApproval
          THEN Outcome("Manager approval is required to freeze an account.",
                       ensured, NoValue)
        ELSE Outcome("", [accs EXCEPT ![i] = changed],
                     [accountNumber |-> changed.accountNumber,
                      status |-> changed.status])

\* i = 0 stands for a missing account; action and managerId are Str(..) or
\* NotAString
updateAccountStatus(accs, i, action, managerId, date) ==
  IF i = 0 THEN Outcome("Account is required.", accs, NoValue)
  ELSE
    LET account == ensureStatusHistory(ensureStatus(accs[i]))
        ensured == [accs EXCEPT ![i] = account]
        required == requireNonEmptyString(action, "Action")
        normalizedAction == ToUpperCase(required.value)
        hasManagerApproval == managerId.str /\ Len(Trim(managerId.s)) > 0
        nextStatus == IF normalizedAction = FREEZE THEN "FROZEN" ELSE "ACTIVE"
        changed ==
          SetField(SetField(account, "status", nextStatus), "statusHistory",
                   Append(account.statusHistory,
                          [action |-> normalizedAction,
                           by |-> IF hasManagerApproval THEN Trim(managerId.s)
                                  ELSE <<"s", "y", "s", "t", "e", "m">>,
                           date |-> date]))
        result == IF account.status # nextStatus THEN changed ELSE account
    IN  IF required.err # "" THEN Outcome(required.err, ensured, NoValue)
        ELSE IF normalizedAction = FREEZE /\ ~hasManagerApproval
          THEN Outcome("Manager approval is required to freeze an account.",
                       ensured, NoValue)
        ELSE IF normalizedAction # FREEZE /\ normalizedAction # UNFREEZE
          THEN Outcome("Action must be \"FREEZE\" or \"UNFREEZE\".", ensured, NoValue)
        ELSE Outcome("", [accs EXCEPT ![i] = result],
                     [accountNumber |-> result.accountNumber,
                      status |-> result.status])

\* assertAccountNotFrozen without the throw
assertAccountNotFrozenSkipped(accs, i) ==
  Outcome("", [accs EXCEPT ![i] = ensureStatus(accs[i])], NoValue)

\* returns the error thrown ("" if none) and the registry after the lazy
\* assignment of status
assertAccountNotFrozen(accs, i) ==
  LET account == ensureStatus(accs[i])
  IN  Outcome(IF account.status = "FROZEN"
              THEN "Account is frozen. Transactions are not allowed."
              ELSE "",
              [accs EXCEPT ![i] = account], NoValue)

\* Array.prototype.reduce((sum, t) => sum + t.amount, 0)
RECURSIVE SumAmounts(_)
SumAmounts(seq) ==
  IF seq = <<>> THEN Num(0)
  ELSE Add(SumAmounts(SubSeq(seq, 1, Len(seq) - 1)), seq[Len(seq)].amount)

\* withdrawalWithDailyLimit with the test withdrawnToday + amount >= 500: the
\* limit itself cannot be reached
withdrawalWithDailyLimitBelowLimit(accs, i, amount, date, stamp) ==
  LET guard == assertAccountNotFrozen(accs, i)
      err == requirePositiveNumber(amount, "Withdrawal amount")
      ensured == [guard.accounts EXCEPT ![i] = ensureTransactions(@)]
      todayKey == DateKey(date)
      Today(t) == t.type = "WITHDRAWAL" /\ t.amount.k # "other"
                  /\ DateKey(t.date) = todayKey
      withdrawnToday == SumAmounts(SelectSeq(ensured[i].transactions, Today))
  IN  IF guard.err # "" THEN guard
      ELSE IF err # "" THEN Outcome(err, guard.accounts, NoValue)
      ELSE IF ~Lt(Add(withdrawnToday, amount), Dollars(500))
        THEN Outcome("Daily withdrawal limit exceeded ($500 max)", ensured, NoValue)
      ELSE withdrawal(ensured, i, amount, stamp)

\* withdrawalWithDailyLimit testing the amount of the call alone
withdrawalWithDailyLimitPerCall(accs, i, amount, date, stamp) ==
  LET guard == assertAccountNotFrozen(accs, i)
      err == requirePositiveNumber(amount, "Withdrawal amount")
      ensured == [guard.accounts EXCEPT ![i] = ensureTransactions(@)]
  IN  IF guard.err # "" THEN guard
      ELSE IF err # "" THEN Outcome(err, guard.accounts, NoValue)
      ELSE IF Gt(amount, Dollars(500))
        THEN Outcome("Daily withdrawal limit exceeded ($500 max)", ensured, NoValue)
      ELSE withdrawal(ensured, i, amount, stamp)

\* withdrawalWithDailyLimit counting the overdraft attempts of the day with
\* its withdrawals
withdrawalWithDailyLimitCountsAttempts(accs, i, amount, date, stamp) ==
  LET guard == assertAccountNotFrozen(accs, i)
      err == requirePositiveNumber(amount, "Withdrawal amount")
      ensured == [guard.accounts EXCEPT ![i] = ensureTransactions(@)]
      todayKey == DateKey(date)
      Today(t) == t.type \in {"WITHDRAWAL", "OVERDRAFT_ATTEMPT"}
                  /\ t.amount.k # "other"
                  /\ DateKey(t.date) = todayKey
      withdrawnToday == SumAmounts(SelectSeq(ensured[i].transactions, Today))
  IN  IF guard.err # "" THEN guard
      ELSE IF err # "" THEN Outcome(err, guard.accounts, NoValue)
      ELSE IF Gt(Add(withdrawnToday, amount), Dollars(500))
        THEN Outcome("Daily withdrawal limit exceeded ($500 max)", ensured, NoValue)
      ELSE withdrawal(ensured, i, amount, stamp)

\* date is the clock when todayKey is taken, stamp the clock when the
\* delegated withdrawal records its transaction
withdrawalWithDailyLimit(accs, i, amount, date, stamp) ==
  LET guard == assertAccountNotFrozen(accs, i)
      err == requirePositiveNumber(amount, "Withdrawal amount")
      ensured == [guard.accounts EXCEPT ![i] = ensureTransactions(@)]
      todayKey == DateKey(date)
      Today(t) == t.type = "WITHDRAWAL" /\ t.amount.k # "other"
                  /\ DateKey(t.date) = todayKey
      withdrawnToday == SumAmounts(SelectSeq(ensured[i].transactions, Today))
  IN  IF guard.err # "" THEN guard
      ELSE IF err # "" THEN Outcome(err, guard.accounts, NoValue)
      ELSE IF Gt(Add(withdrawnToday, amount), Dollars(500))
        THEN Outcome("Daily withdrawal limit exceeded ($500 max)", ensured, NoValue)
      ELSE withdrawal(ensured, i, amount, stamp)

addDepositSafe(accs, i, amount, date) ==
  LET guard == assertAccountNotFrozen(accs, i)
  IN  IF guard.err # "" THEN guard
      ELSE addDeposit(guard.accounts, i, amount, date)

\* transferMoneySafe guarding the source account only
transferMoneySafeChecksSource(accs, from, to, amount, date) ==
  LET guardFrom == assertAccountNotFrozen(accs, from)
  IN  IF guardFrom.err # "" THEN guardFrom
      ELSE transferMoney(guardFrom.accounts, from, to, amount, date)

transferMoneySafe(accs, from, to, amount, date) ==
  LET guardFrom == assertAccountNotFrozen(accs, from)
      guardTo == assertAccountNotFrozen(guardFrom.accounts, to)
  IN  IF guardFrom.err # "" THEN guardFrom
      ELSE IF guardTo.err # "" THEN guardTo
      ELSE transferMoney(guardTo.accounts, from, to, amount, date)

----------------------------------------------------------------------------
(* securityService.js: checkForSuspiciousActivity                          *)

\* typeof value === "number"
TypeofNumber(value) == value.k \in {"num", "inf", "nan"}

\* the test of rule 1 letting an amount of exactly 10000 through
IsHighValueFrom10000(t) ==
  /\ "amount" \in DOMAIN t
  /\ TypeofNumber(t.amount)
  /\ ~Lt(t.amount, Dollars(10000))
  /\ t.amount.k # "nan"

\* typeof t.amount === "number" && t.amount > 10000
IsHighValue(t) ==
  /\ "amount" \in DOMAIN t
  /\ TypeofNumber(t.amount)
  /\ Gt(t.amount, Dollars(10000))

kind(t) ==
  IF t.type = "TRANSFER_OUT" \/ t.type = "TRANSFER_IN" THEN "transfer"
  ELSE IF t.type = "WITHDRAWAL" THEN "withdrawal"
  ELSE IF t.type = "DEPOSIT" THEN "deposit"
  ELSE "transaction"

\* An alert is the text of the code taken apart: rule is the text before the
\* colon, the other fields are the values the template interpolates.
\* `High-value transaction: $${t.amount} ${kind}`, one per transaction, in
\* the order of the history
RECURSIVE HighValueAlerts(_)
HighValueAlerts(transactions) ==
  IF transactions = <<>> THEN <<>>
  ELSE LET t == Head(transactions)
       IN  (IF IsHighValue(t)
            THEN <<[rule |-> "High-value transaction", amount |-> t.amount,
                    kind |-> kind(t)]>>
            ELSE <<>>)
           \o HighValueAlerts(Tail(transactions))

IsSmallWithdrawal(t) ==
  /\ t.type = "WITHDRAWAL"
  /\ "amount" \in DOMAIN t
  /\ TypeofNumber(t.amount)
  /\ Le(t.amount, Dollars(500))

\* ({ ...t, _ms: new Date(t.date).getTime() })
WithMs(t) == SetField(t, "_ms", GetTime(t.date))

RECURSIVE MapWithMs(_)
MapWithMs(seq) ==
  IF seq = <<>> THEN <<>> ELSE <<WithMs(Head(seq))>> \o MapWithMs(Tail(seq))

\* insert t behind every entry that does not sort after it (stable)
RECURSIVE InsertByMs(_, _)
InsertByMs(sorted, t) ==
  IF sorted = <<>> THEN <<t>>
  ELSE IF t._ms - Head(sorted)._ms < 0 THEN <<t>> \o sorted
  ELSE <<Head(sorted)>> \o InsertByMs(Tail(sorted), t)

\* .sort((a, b) => a._ms - b._ms)
RECURSIVE SortByMs(_)
SortByMs(seq) ==
  IF seq = <<>> THEN <<>>
  ELSE InsertByMs(SortByMs(SubSeq(seq, 1, Len(seq) - 1)), seq[Len(seq)])

smallWithdrawals(transactions) ==
  SortByMs(MapWithMs(SelectSeq(transactions, IsSmallWithdrawal)))

windowMs == 5 * 60 * 1000

\* the test of the window leaving out a span of exactly five minutes
WithinWindowStrictly(span) == span < windowMs

\* span <= windowMs
WithinWindow(span) == span <= windowMs

\* Math.max(1, Math.round(span / 60000))
Minutes(span) ==
  LET rounded == (span + 30000) \div 60000
  IN  IF rounded > 1 THEN rounded ELSE 1

\* the inner loop going on to the last withdrawal inside the window
RECURSIVE InnerScanWidest(_, _, _)
InnerScanWidest(small, i, j) ==
  IF j > Len(small) THEN 0
  ELSE IF WithinWindow(small[j]._ms - small[i]._ms)
    THEN LET further == InnerScanWidest(small, i, j + 1)
         IN  IF further # 0 THEN further ELSE j
  ELSE 0

\* the inner loop from j on (indices from 1): the j the loop stops at with
\* an alert, 0 if it leaves without one
RECURSIVE InnerScan(_, _, _)
InnerScan(small, i, j) ==
  IF j > Len(small) THEN 0
  ELSE LET span == small[j]._ms - small[i]._ms
       IN  IF WithinWindow(span) THEN j
           ELSE IF span > windowMs THEN 0
           ELSE InnerScan(small, i, j + 1)

\* the outer loop from i on: the alerts pushed, none or one (flaggedRapid
\* ends both loops)
RECURSIVE RapidAlerts(_, _)
RapidAlerts(small, i) ==
  IF i > Len(small) THEN <<>>
  ELSE LET j == InnerScan(small, i, i + 2)
       IN  IF j # 0
           THEN <<[rule |-> "Rapid withdrawals", count |-> j - i + 1,
                   minutes |-> Minutes(small[j]._ms - small[i]._ms)]>>
           ELSE RapidAlerts(small, i + 1)

checkForSuspiciousActivity(accs, i) ==
  LET account == ensureTransactions(accs[i])
      alerts == HighValueAlerts(account.transactions)
                \o RapidAlerts(smallWithdrawals(account.transactions), 1)
  IN  Outcome("", [accs EXCEPT ![i] = account],
              [isSuspicious |-> Len(alerts) > 0, alerts |-> alerts])

----------------------------------------------------------------------------
(* securityService.js: validatePassword                                    *)

DigitChars == <<"0", "1", "2", "3", "4", "5", "6", "7", "8", "9">>

\* /[A-Z]/, /[a-z]/, /[0-9]/ and /[^A-Za-z0-9]/ on one character
IsUpperChar(c) == \E i \in 1..26 : UpperLetters[i] = c

IsLowerChar(c) == \E i \in 1..26 : LowerLetters[i] = c

IsDigitChar(c) == \E i \in 1..10 : DigitChars[i] = c

IsSpecialChar(c) == ~(IsUpperChar(c) \/ IsLowerChar(c) \/ IsDigitChar(c))

LowerChar(c) ==
  IF IsUpperChar(c)
  THEN LowerLetters[CHOOSE i \in 1..26 : UpperLetters[i] = c]
  ELSE c

\* String.prototype.toLowerCase
ToLowerCase(s) == [i \in 1..Len(s) |-> LowerChar(s[i])]

\* String.prototype.includes
Includes(s, part) ==
  \E k \in 0..(Len(s) - Len(part)) : SubSeq(s, k + 1, k + Len(part)) = part

commonPasswords ==
  {<<"p", "a", "s", "s", "w", "o", "r", "d">>,
   <<"p", "a", "s", "s", "w", "o", "r", "d", "1", "2", "3">>,
   <<"1", "2", "3", "4", "5", "6", "7", "8", "9", "0", "1", "2">>,
   <<"q", "w", "e", "r", "t", "y", "u", "i", "o", "p", "1", "2">>,
   <<"l", "e", "t", "m", "e", "i", "n", "1", "2", "3", "4", "5", "6">>,
   <<"a", "d", "m", "i", "n", "a", "d", "m", "i", "n", "1", "2", "3">>,
   <<"i", "l", "o", "v", "e", "y", "o", "u", "1", "2", "3", "4", "5">>,
   <<"w", "e", "l", "c", "o", "m", "e", "1", "2", "3", "4", "5", "6">>}

\* reasons.push(reason) under its condition
ReasonIf(condition, reason) == IF condition THEN <<reason>> ELSE <<>>

\* validatePassword returning at the first check that fails
validatePasswordFirstReasonOnly(password) ==
  IF ~password.str
  THEN [valid |-> FALSE, reasons |-> <<"Password must be a string">>]
  ELSE
    LET s == password.s
        lowered == ToLowerCase(s)
        reasons ==
          ReasonIf(Len(s) < 12, "Password must be at least 12 characters")
          \o ReasonIf(~\E i \in 1..Len(s) : IsUpperChar(s[i]),
                      "Password must contain an uppercase letter")
          \o ReasonIf(~\E i \in 1..Len(s) : IsLowerChar(s[i]),
                      "Password must contain a lowercase letter")
          \o ReasonIf(~\E i \in 1..Len(s) : IsDigitChar(s[i]),
                      "Password must contain a number")
          \o ReasonIf(~\E i \in 1..Len(s) : IsSpecialChar(s[i]),
                      "Password must contain a special character")
          \o ReasonIf(\/ lowered \in commonPasswords
                      \/ Includes(lowered, <<"p", "a", "s", "s", "w", "o", "r", "d">>),
                      "Password is too common")
    IN  IF Len(reasons) # 0
        THEN [valid |-> FALSE, reasons |-> <<Head(reasons)>>]
        ELSE [valid |-> TRUE]

validatePassword(password) ==
  IF ~password.str
  THEN [valid |-> FALSE, reasons |-> <<"Password must be a string">>]
  ELSE
    LET s == password.s
        lowered == ToLowerCase(s)
        reasons ==
          ReasonIf(Len(s) < 12, "Password must be at least 12 characters")
          \o ReasonIf(~\E i \in 1..Len(s) : IsUpperChar(s[i]),
                      "Password must contain an uppercase letter")
          \o ReasonIf(~\E i \in 1..Len(s) : IsLowerChar(s[i]),
                      "Password must contain a lowercase letter")
          \o ReasonIf(~\E i \in 1..Len(s) : IsDigitChar(s[i]),
                      "Password must contain a number")
          \o ReasonIf(~\E i \in 1..Len(s) : IsSpecialChar(s[i]),
                      "Password must contain a special character")
          \o ReasonIf(\/ lowered \in commonPasswords
                      \/ Includes(lowered, <<"p", "a", "s", "s", "w", "o", "r", "d">>),
                      "Password is too common")
    IN  IF Len(reasons) # 0
        THEN [valid |-> FALSE, reasons |-> reasons]
        ELSE [valid |-> TRUE]

----------------------------------------------------------------------------
(* Bounds and inputs                                                       *)

MaxAccounts == 2

\* what the whole registry holds: the accounts created, the transactions
\* appended (the two halves of a transfer count once) and the accounts whose
\* status was ever changed
MaxSize == 3

\* the status changes of one account
MaxStatusChanges == 2

\* the calls of a history audited for high values, and of one audited for
\* rapid withdrawals
MaxLargeCalls == 3

MaxSmallCalls == 5

\* the calls of a history replayed to an overdrawn account, and what a
\* registry that starts from a replayed history may come to hold
MaxOverdraftCalls == 3

MaxLoadedSize == 6

IsCall(t) == t.type # "TRANSFER_IN"

RECURSIVE Size(_)
Size(accs) ==
  IF accs = <<>> THEN 0
  ELSE 1 + Len(SelectSeq(Transactions(Head(accs)), IsCall))
       + (IF StatusHistory(Head(accs)) = <<>> THEN 0 ELSE 1) + Size(Tail(accs))

Variants == {"backend", "browser"}

NameInputs == {NotAString, Str(<<>>), Str(<<" ">>), Str(<<"J">>), Str(<<" ", "J", " ">>)}

DepositInputs ==
  {NotANumber, NaN, NegInf, Dollars(49), Dollars(50), Dollars(500),
   Dollars(600), PosInf}

\* every name with a valid deposit, every deposit with valid names
AccountDataInputs ==
  {Null}
  \cup [firstName : NameInputs, lastName : NameInputs, initialDeposit : {Dollars(50)}]
  \cup [firstName : {Str(<<"J">>)}, lastName : {Str(<<"D">>)},
        initialDeposit : DepositInputs]

\* values of floor(Math.random() * 9000000000)
FirstSample == <<0, 0>>

SecondSample == <<89999, 99999>>

\* the successive samples one call draws
SampleRuns == {<<FirstSample>>, <<FirstSample, SecondSample>>}

AmountInputs ==
  {NotANumber, NaN, NegInf, Dollars(-50), Num(0), Dollars(50), PosInf}

ActionInputs ==
  {NotAString, Str(<<" ">>), Str(FREEZE), Str(<<"f", "r", "e", "e", "z", "e">>),
   Str(UNFREEZE), Str(<<"C", "L", "O", "S", "E">>)}

ManagerInputs == {NotAString, Str(<<>>), Str(<<" ">>), Str(<<" ", "M", "1">>)}

\* the instants the clock is observed at
Instants == {DayMs}

BoundInputs ==
  {[kind |-> "absent"], [kind |-> "invalid"],
   [kind |-> "dateOnly", day |-> 0], [kind |-> "dateOnly", day |-> 1]}

TypeInputs ==
  {NotAString, Str(<<>>), Str(<<" ">>), Str(TypeChars("DEPOSIT")),
   Str(<<"d", "e", "p", "o", "s", "i", "t">>)}

\* every pair of bounds without a type, every type without bounds
OptionInputs ==
  [startDate : BoundInputs, endDate : BoundInputs, type : {NotAString}]
  \cup [startDate : {[kind |-> "absent"]}, endDate : {[kind |-> "absent"]},
        type : TypeInputs]

----------------------------------------------------------------------------
(* The calls.  A call runs to completion in one step and leaves in last    *)
(* what its caller sees: the name and arguments of the call, the registry  *)
(* and the clock it was made on, the error thrown ("" if none) and the     *)
(* value returned.                                                         *)
(* The caller then takes the result (Return) before the next call.         *)

Idle ==
  [op |-> "none", args |-> <<>>, before |-> <<>>, at |-> 0, err |-> "",
   ret |-> NoValue]

Indices == 1..Len(accounts)

Call(op, args, out) ==
  /\ last.op = "none"
  /\ \/ Size(out.accounts) <= MaxSize
     \/ Size(out.accounts) <= Size(accounts)
     \/ (Size(accounts) > MaxSize /\ Size(out.accounts) <= MaxLoadedSize)
  /\ \A i \in 1..Len(out.accounts) :
       Len(StatusHistory(out.accounts[i])) <= MaxStatusChanges
  /\ accounts' = out.accounts
  /\ last' = [op |-> op, args |-> args, before |-> accounts, at |-> now,
              err |-> out.err, ret |-> out.ret]

Create(accountData, samples) ==
  LET out == generateBankAccount(accounts, accountData, samples, ToISOString(now))
  IN  /\ out.err = "" => (Len(accounts) < MaxAccounts /\ out.ret.accountNumber # <<>>)
      /\ Call("create", <<accountData>>, out)
      /\ UNCHANGED <<now, variant>>

\* the deposit handler calling the guarded deposit
DepositGuarded(i, amount) ==
  /\ Call("deposit", <<i, amount>>,
          addDepositSafe(accounts, i, amount, ToISOString(now)))
  /\ UNCHANGED <<now, variant>>

Deposit(i, amount) ==
  /\ Call("deposit", <<i, amount>>, addDeposit(accounts, i, amount, ToISOString(now)))
  /\ UNCHANGED <<now, variant>>

\* the withdrawal handler calling the withdrawal with the daily limit
WithdrawCapped(i, amount) ==
  /\ Call("withdraw", <<i, amount>>,
          withdrawalWithDailyLimit(accounts, i, amount, ToISOString(now),
                                   ToISOString(now)))
  /\ UNCHANGED <<now, variant>>

Withdraw(i, amount) ==
  /\ Call("withdraw", <<i, amount>>, withdrawal(accounts, i, amount, ToISOString(now)))
  /\ UNCHANGED <<now, variant>>

Transfer(from, to, amount) ==
  /\ Call("transfer", <<from, to, amount>>,
          transferMoney(accounts, from, to, amount, ToISOString(now)))
  /\ UNCHANGED <<now, variant>>

AccrueInterest(i) ==
  /\ Call("accrueInterest", <<i>>,
          calculateSaving(variant, accounts, i, ToISOString(now)))
  /\ UNCHANGED <<now, variant>>

RetrieveInRange(i, options) ==
  /\ Call("retrieveInRange", <<i, options>>,
          retrieveTransactionsInRange(variant, accounts, i, options))
  /\ UNCHANGED <<now, variant>>

UpdateStatus(i, action, managerId) ==
  /\ Call("updateAccountStatus", <<i, action, managerId>>,
          updateAccountStatus(accounts, i, action, managerId, ToISOString(now)))
  /\ UNCHANGED <<now, variant>>

DepositSafe(i, amount) ==
  /\ Call("depositSafe", <<i, amount>>,
          addDepositSafe(accounts, i, amount, ToISOString(now)))
  /\ UNCHANGED <<now, variant>>

TransferSafe(from, to, amount) ==
  /\ Call("transferSafe", <<from, to, amount>>,
          transferMoneySafe(accounts, from, to, amount, ToISOString(now)))
  /\ UNCHANGED <<now, variant>>

\* the clock may move on to stamp while the call runs
WithdrawWithDailyLimit(i, amount, stamp) ==
  /\ stamp >= now
  /\ Call("withdrawWithDailyLimit", <<i, amount>>,
          withdrawalWithDailyLimit(accounts, i, amount, ToISOString(now),
                                   ToISOString(stamp)))
  /\ now' = stamp
  /\ UNCHANGED variant

CheckForSuspiciousActivity(i) ==
  /\ Call("checkForSuspiciousActivity", <<i>>,
          checkForSuspiciousActivity(accounts, i))
  /\ UNCHANGED <<now, variant>>

ValidatePassword(password) ==
  /\ Call("validatePassword", <<password>>,
          Outcome("", accounts, validatePassword(password)))
  /\ UNCHANGED <<now, variant>>

\* the caller takes the result of the call
Return ==
  /\ last.op # "none"
  /\ last' = Idle
  /\ UNCHANGED <<accounts, now, variant>>

\* time passes between two calls
Tick(t) ==
  /\ last.op = "none"
  /\ t > now
  /\ now' = t
  /\ UNCHANGED <<accounts, variant, last>>

Init ==
  /\ accounts = <<>>
  /\ now = 0
  /\ variant \in Variants
  /\ last = Idle

\* The ledger calls on the full range of inputs
NextLedger ==
  \/ \E accountData \in AccountDataInputs, samples \in SampleRuns :
       Create(accountData, samples)
  \/ \E i \in Indices, amount \in AmountInputs : Deposit(i, amount)
  \/ \E i \in Indices, amount \in AmountInputs : Withdraw(i, amount)
  \/ \E from \in {0} \cup Indices, to \in {0} \cup Indices, amount \in AmountInputs :
       Transfer(from, to, amount)
  \/ \E i \in Indices : AccrueInterest(i)
  \/ Return

SpecLedger == Init /\ [][NextLedger]_vars

\* The inputs of the whole engine: a creation refused and one accepted, an
\* amount refused, one under and one over the daily limit
EngineAccountData ==
  {Null}
  \cup [firstName : {Str(<<"J">>)}, lastName : {Str(<<"D">>)},
        initialDeposit : {Dollars(49), Dollars(50)}]

EngineAmounts == {NotANumber, Num(0), Dollars(50), Dollars(600)}

\* Every call of the engine
Next ==
  \/ \E accountData \in EngineAccountData, samples \in SampleRuns :
       Create(accountData, samples)
  \/ \E i \in Indices, amount \in EngineAmounts : Deposit(i, amount)
  \/ \E i \in Indices, amount \in EngineAmounts : Withdraw(i, amount)
  \/ \E from \in {0} \cup Indices, to \in {0} \cup Indices, amount \in EngineAmounts :
       Transfer(from, to, amount)
  \/ \E i \in Indices : AccrueInterest(i)
  \/ \E i \in {0} \cup Indices, options \in OptionInputs : RetrieveInRange(i, options)
  \/ \E i \in {0} \cup Indices, action \in ActionInputs, managerId \in ManagerInputs :
       UpdateStatus(i, action, managerId)
  \/ \E i \in Indices, amount \in EngineAmounts : DepositSafe(i, amount)
  \/ \E from \in Indices, to \in Indices, amount \in EngineAmounts :
       TransferSafe(from, to, amount)
  \/ \E i \in Indices, amount \in EngineAmounts, stamp \in {now} \cup Instants :
       WithdrawWithDailyLimit(i, amount, stamp)
  \/ Return
  \/ \E t \in Instants : Tick(t)

Spec == Init /\ [][Next]_vars

\* The guarded calls, where every withdrawal goes through the daily limit:
\* balances under and over the limit, and amounts that meet it at 500 and
\* pass it
SecurityAccountData ==
  [firstName : {Str(<<"J">>)}, lastName : {Str(<<"D">>)},
   initialDeposit : {Dollars(50), Dollars(600)}]

SecurityDeposits == {NotANumber, Dollars(50)}

SecurityAmounts == {NotANumber, Dollars(200), Dollars(300), Dollars(600), PosInf}

NextSecurity ==
  \/ \E accountData \in SecurityAccountData, samples \in SampleRuns :
       Create(accountData, samples)
  \/ \E i \in {0} \cup Indices, action \in ActionInputs, managerId \in ManagerInputs :
       UpdateStatus(i, action, managerId)
  \/ \E i \in Indices, amount \in SecurityDeposits : DepositSafe(i, amount)
  \/ \E from \in Indices, to \in Indices, amount \in SecurityAmounts :
       TransferSafe(from, to, amount)
  \/ \E i \in Indices, amount \in SecurityAmounts, stamp \in {now} \cup Instants :
       WithdrawWithDailyLimit(i, amount, stamp)
  \/ Return
  \/ \E t \in Instants : Tick(t)

\* The retrieval over histories written at the start of a day, in its last
\* millisecond and at the start of the next day
RetrievalAccountData ==
  [firstName : {Str(<<"J">>)}, lastName : {Str(<<"D">>)},
   initialDeposit : {Dollars(50)}]

RetrievalAmounts == {Dollars(50)}

RetrievalInstants == {DayMs - 1, DayMs}

RetrievalBounds ==
  {[kind |-> "absent"], [kind |-> "invalid"],
   [kind |-> "dateOnly", day |-> 0], [kind |-> "dateOnly", day |-> 1],
   [kind |-> "iso", iso |-> ToISOString(DayMs - 1)]}

RetrievalTypes ==
  {NotAString, Str(<<>>), Str(<<" ">>), Str(TypeChars("DEPOSIT")),
   Str(<<" ", "d", "e", "p", "o", "s", "i", "t", " ">>),
   Str(TypeChars("WITHDRAWAL"))}

RetrievalOptions ==
  [startDate : RetrievalBounds, endDate : RetrievalBounds, type : RetrievalTypes]

NextRetrieval ==
  \/ \E accountData \in RetrievalAccountData, samples \in SampleRuns :
       Create(accountData, samples)
  \/ \E i \in Indices, amount \in RetrievalAmounts : Deposit(i, amount)
  \/ \E i \in Indices, amount \in RetrievalAmounts : Withdraw(i, amount)
  \/ \E i \in {0} \cup Indices, options \in RetrievalOptions :
       RetrieveInRange(i, options)
  \/ Return
  \/ \E t \in RetrievalInstants : Tick(t)

SpecRetrieval == Init /\ [][NextRetrieval]_vars

\* the guarded calls are the same code in both copies: one is followed
InitSecurity == Init /\ variant = "backend"

SpecSecurity == InitSecurity /\ [][NextSecurity]_vars

\* The audit is a function of the history of the account.  It is applied to
\* the histories the ledger writes: two accounts are opened and the calls of
\* a script made one after the other, each after its gap on the clock.
\* A step of a script is [op, amount, gap]; account 1 is the one that
\* deposits, withdraws, and transfers to (transferOut) or from (transferIn)
\* account 2.
ReplayStep(accs, step, date) ==
  CASE step.op = "deposit" -> addDeposit(accs, 1, step.amount, date)
    [] step.op = "withdraw" -> withdrawal(accs, 1, step.amount, date)
    [] step.op = "transferOut" -> transferMoney(accs, 1, 2, step.amount, date)
    [] step.op = "transferIn" -> transferMoney(accs, 2, 1, step.amount, date)

RECURSIVE Replay(_, _, _)
Replay(accs, clock, script) ==
  IF script = <<>> THEN [accounts |-> accs, now |-> clock]
  ELSE LET at == clock + Head(script).gap
       IN  Replay(ReplayStep(accs, Head(script), ToISOString(at)).accounts,
                  at, Tail(script))

Opened(opening) ==
  LET data(deposit) ==
        [firstName |-> Str(<<"J">>), lastName |-> Str(<<"D">>),
         initialDeposit |-> deposit]
      first == generateBankAccount(<<>>, data(opening), <<FirstSample>>,
                                   ToISOString(0))
  IN  generateBankAccount(first.accounts, data(Dollars(50)),
                          <<FirstSample, SecondSample>>, ToISOString(0)).accounts

\* the scripts of at most n steps
RECURSIVE ScriptsOf(_, _)
ScriptsOf(steps, n) ==
  IF n = 0 THEN {<<>>}
  ELSE LET shorter == ScriptsOf(steps, n - 1)
       IN  shorter
           \cup {Append(script, step) :
                   script \in {t \in shorter : Len(t) = n - 1}, step \in steps}

IsDeposit(step) == step.op = "deposit"

\* amounts at and above the threshold of rule 1, in every type of record;
\* two deposits of that size is what the fixed-point range holds
LargeSteps ==
  [op : {"deposit", "withdraw", "transferOut", "transferIn"},
   amount : {Dollars(10000), Dollars(10001)}, gap : {0}]

LargeScripts ==
  {script \in ScriptsOf(LargeSteps, MaxLargeCalls) :
     Len(SelectSeq(script, IsDeposit)) <= 2}

\* withdrawals at and above the amount of rule 2, and deposits between them,
\* at once, after two and a half minutes and a millisecond later
SmallSteps ==
  [op : {"withdraw"}, amount : {Dollars(500), Dollars(501)},
   gap : {0, 150000, 150001}]
  \cup [op : {"deposit"}, amount : {Dollars(500)}, gap : {0, 150000, 150001}]

SmallScripts == ScriptsOf(SmallSteps, MaxSmallCalls)

AuditRuns ==
  [opening : {Dollars(50)}, script : LargeScripts]
  \cup [opening : {Dollars(2100)}, script : SmallScripts]

InitAudit ==
  \E run \in AuditRuns :
    LET replayed == Replay(Opened(run.opening), 0, run.script)
    IN  /\ accounts = replayed.accounts
        /\ now = replayed.now
        /\ variant = "backend"
        /\ last = Idle

NextAudit ==
  \/ \E i \in Indices : CheckForSuspiciousActivity(i)
  \/ Return

SpecAudit == InitAudit /\ [][NextAudit]_vars

\* The passwords: a body (empty, a denylisted word in either case, a word
\* that holds "password", or neutral letters of 8 and 9 characters) with or
\* without an uppercase letter and a lowercase letter before it and a digit
\* and a special character (a punctuation mark or a space) after it, so that
\* every check is passed and failed on both sides of the length 12
PasswordBodies ==
  {<<>>,
   <<"p", "a", "s", "s", "w", "o", "r", "d">>,
   <<"P", "a", "s", "s", "W", "o", "r", "d">>,
   <<"p", "a", "s", "s", "w", "o", "r", "d", "1", "2", "3">>,
   <<"q", "w", "e", "r", "t", "y", "u", "i", "o", "p", "1", "2">>,
   <<"Q", "W", "E", "R", "T", "Y", "U", "I", "O", "P", "1", "2">>,
   <<"1", "2", "3", "4", "5", "6", "7", "8", "9", "0", "1", "2">>,
   <<"x", "y", "z", "x", "y", "z", "x", "y">>,
   <<"x", "y", "z", "x", "y", "z", "x", "y", "z">>}

PasswordInputs ==
  {NotAString}
  \cup {Str(upper \o lower \o body \o digit \o special) :
          upper \in {<<>>, <<"A">>}, lower \in {<<>>, <<"b">>},
          body \in PasswordBodies, digit \in {<<>>, <<"7">>},
          special \in {<<>>, <<"!">>, <<" ">>}}

NextPassword ==
  \/ \E password \in PasswordInputs : ValidatePassword(password)
  \/ Return

SpecPassword == Init /\ [][NextPassword]_vars

\* The changes of status alone, asked for by nobody, by a manager and by a
\* manager whose id is the word the code writes when nobody asked
ApprovalManagers ==
  {NotAString, Str(<<" ", "M", "1">>), Str(<<"s", "y", "s", "t", "e", "m">>)}

NextApproval ==
  \/ \E accountData \in SecurityAccountData, samples \in SampleRuns :
       Create(accountData, samples)
  \/ \E i \in {0} \cup Indices, action \in ActionInputs, managerId \in ApprovalManagers :
       UpdateStatus(i, action, managerId)
  \/ Return
  \/ \E t \in Instants : Tick(t)

SpecApproval == InitSecurity /\ [][NextApproval]_vars

\* The ledger on overdrawn accounts.  Two accounts are opened with 50 and a
\* script of withdrawals, deposits and transfers replayed, all at one
\* instant; the ledger calls go on from there.
OverdraftSteps ==
  [op : {"withdraw"}, amount : {Dollars(50), Dollars(600)}, gap : {0}]
  \cup [op : {"deposit", "transferOut", "transferIn"}, amount : {Dollars(50)},
        gap : {0}]

OverdraftScripts == ScriptsOf(OverdraftSteps, MaxOverdraftCalls)

OverdraftAmounts == {Dollars(50), Dollars(600)}

InitOverdraft ==
  \E script \in OverdraftScripts :
    LET replayed == Replay(Opened(Dollars(50)), 0, script)
    IN  /\ Size(replayed.accounts) > MaxSize
        /\ accounts = replayed.accounts
        /\ now = replayed.now
        /\ variant = "backend"
        /\ last = Idle

NextOverdraft ==
  \/ \E i \in Indices : Deposit(i, Dollars(50))
  \/ \E i \in Indices, amount \in OverdraftAmounts : Withdraw(i, amount)
  \/ \E from \in Indices, to \in Indices : Transfer(from, to, Dollars(50))
  \/ Return

SpecOverdraft == InitOverdraft /\ [][NextOverdraft]_vars

----------------------------------------------------------------------------
(* What the claims speak of                                                *)

\* the registry the latest call was made on
Before == last.before

\* a number the validators let through / a finite positive number
PositiveNumber(a) == (a.k = "num" \/ a.k = "inf") /\ Gt(a, Num(0))

FinitePositive(a) == a.k = "num" /\ a.v > 0

IsNegative(a) == Lt(a, Num(0))

IsNonNegative(a) == Le(Num(0), a)

\* the transactions the latest call appended to account i
Appended(i) ==
  SubSeq(Transactions(accounts[i]), Len(Transactions(Before[i])) + 1,
         Len(Transactions(accounts[i])))

\* the transactions account i had before the latest call are still there
KeepsHistory(i) ==
  /\ Len(Transactions(accounts[i])) >= Len(Transactions(Before[i]))
  /\ SubSeq(Transactions(accounts[i]), 1, Len(Transactions(Before[i])))
       = Transactions(Before[i])

\* the balance effect of one transaction (the table of the data model)
ApplyEffect(balance, t) ==
  CASE t.type = "DEPOSIT" -> Add(balance, t.amount)
    [] t.type = "WITHDRAWAL" -> Sub(balance, t.amount)
    [] t.type = "OVERDRAFT_ATTEMPT" -> Sub(balance, t.penalty)
    [] t.type = "TRANSFER_OUT" -> Sub(balance, t.amount)
    [] t.type = "TRANSFER_IN" -> Add(balance, t.amount)
    [] t.type = "INTEREST" -> Add(balance, t.amount)

RECURSIVE ApplyEffects(_, _)
ApplyEffects(balance, seq) ==
  IF seq = <<>> THEN balance
  ELSE ApplyEffects(ApplyEffect(balance, Head(seq)), Tail(seq))

\* an account as its readers see it: an absent status counts as ACTIVE, an
\* absent list as empty
Normal(account) ==
  [accountNumber |-> account.accountNumber,
   firstName |-> account.firstName,
   lastName |-> account.lastName,
   balance |-> account.balance,
   createdAt |-> account.createdAt,
   transactions |-> Transactions(account),
   status |-> Status(account),
   statusHistory |-> StatusHistory(account)]

NormalRegistry(accs) == [i \in 1..Len(accs) |-> Normal(accs[i])]

----------------------------------------------------------------------------
(* Claims                                                                  *)

\* C1: every account's balance is its opening balance with the signed
\* effects of its transactions applied in append order.  Stated call by
\* call: a new account opens with its initial deposit and no transaction,
\* and every call leaves each balance equal to the balance before it with the
\* effects of the entries the call appended applied in order.
C1_BalanceIsSumOfEffects ==
  last.op \in {"create", "deposit", "withdraw", "transfer", "accrueInterest"} =>
    \A i \in 1..Len(accounts) :
      IF i <= Len(Before)
      THEN /\ KeepsHistory(i)
           /\ accounts[i].balance = ApplyEffects(Before[i].balance, Appended(i))
      ELSE /\ accounts[i].balance = last.args[1].initialDeposit
           /\ Transactions(accounts[i]) = <<>>

\* C2: accrueInterest on a balance above 500 appends exactly one INTEREST
\* record of amount balance * 0.00167 and adds that amount to the balance,
\* so the balance equals the record's newBalance and the balance returned.
C2_InterestAddedToBalance ==
  (last.op = "accrueInterest" /\ Gt(Before[last.args[1]].balance, Dollars(500))) =>
    LET i == last.args[1]
        interest == InterestOf(Before[i].balance)
    IN  /\ last.err = ""
        /\ KeepsHistory(i)
        /\ Len(Appended(i)) = 1
        /\ Appended(i)[1].type = "INTEREST"
        /\ Appended(i)[1].amount = interest
        /\ accounts[i].balance = Add(Before[i].balance, interest)
        /\ accounts[i].balance = Appended(i)[1].newBalance
        /\ accounts[i].balance = last.ret.balance

\* C3: withdraw of an amount above the balance returns without error, lowers
\* the balance by the penalty 5 and not by the amount, and appends exactly one
\* OVERDRAFT_ATTEMPT record carrying the attempted amount, the penalty 5 and
\* the balance after the penalty.  (The amount is one the validation of
\* section 4.2 lets through.)
C3_OverdraftChargesPenalty ==
  (/\ last.op = "withdraw"
   /\ PositiveNumber(last.args[2])
   /\ Gt(last.args[2], Before[last.args[1]].balance)) =>
    LET i == last.args[1]
    IN  /\ last.err = ""
        /\ accounts[i].balance = Sub(Before[i].balance, Dollars(5))
        /\ last.ret.balance = accounts[i].balance
        /\ KeepsHistory(i)
        /\ Len(Appended(i)) = 1
        /\ Appended(i)[1].type = "OVERDRAFT_ATTEMPT"
        /\ Appended(i)[1].amount = last.args[2]
        /\ Appended(i)[1].penalty = Dollars(5)
        /\ Appended(i)[1].newBalance = accounts[i].balance
        /\ \A j \in 1..Len(accounts) : j # i => accounts[j] = Before[j]

\* an overdraft that took a balance below zero
C3_Witness ==
  /\ last.op = "withdraw"
  /\ last.err = ""
  /\ Gt(last.args[2], Before[last.args[1]].balance)
  /\ IsNonNegative(Before[last.args[1]].balance)
  /\ IsNegative(accounts[last.args[1]].balance)

\* C4: withdraw of a valid (finite, positive) amount at most the balance,
\* equality included, appends exactly one WITHDRAWAL record with that amount
\* and lowers the balance by exactly that amount, with no penalty; withdrawing
\* the whole balance leaves 0.
C4_WithdrawalDebitsAmount ==
  (/\ last.op = "withdraw"
   /\ FinitePositive(last.args[2])
   /\ Le(last.args[2], Before[last.args[1]].balance)) =>
    LET i == last.args[1]
    IN  /\ last.err = ""
        /\ accounts[i].balance = Sub(Before[i].balance, last.args[2])
        /\ last.ret.balance = accounts[i].balance
        /\ KeepsHistory(i)
        /\ Len(Appended(i)) = 1
        /\ Appended(i)[1].type = "WITHDRAWAL"
        /\ Appended(i)[1].amount = last.args[2]
        /\ "penalty" \notin DOMAIN Appended(i)[1]
        /\ Appended(i)[1].newBalance = accounts[i].balance
        /\ last.args[2] = Before[i].balance => accounts[i].balance = Num(0)

\* the whole balance withdrawn
C4_Witness ==
  /\ last.op = "withdraw"
  /\ last.err = ""
  /\ last.args[2] = Before[last.args[1]].balance
  /\ accounts[last.args[1]].balance = Num(0)

\* the latest call took the penalty branch of withdraw on account i
PenaltyBranch(i) ==
  /\ last.op = "withdraw"
  /\ last.args[1] = i
  /\ Len(Appended(i)) = 1
  /\ Appended(i)[1].type = "OVERDRAFT_ATTEMPT"

\* C5: a balance goes from non-negative to negative only by the penalty
\* branch of withdraw: no deposit, plain withdrawal, transfer (either side)
\* or interest accrual does it.
C5_NegativeOnlyByPenalty ==
  last.op # "none" =>
    \A i \in 1..Len(Before) :
      (IsNonNegative(Before[i].balance) /\ IsNegative(accounts[i].balance))
        => PenaltyBranch(i)

\* a withdrawal of the whole balance left it at zero, and the overdraft that
\* followed took it below
C5_Witness ==
  \E i \in 1..Len(Before) :
    /\ PenaltyBranch(i)
    /\ Before[i].balance = Num(0)
    /\ IsNegative(accounts[i].balance)
    /\ Transactions(Before[i]) # <<>>
    /\ Transactions(Before[i])[Len(Transactions(Before[i]))].type = "WITHDRAWAL"

\* C6: a successful transfer between two distinct accounts lowers
\* from.balance by the amount and raises to.balance by the same amount, so
\* that the sum of the two balances is unchanged, and appends exactly one
\* TRANSFER_OUT to from naming to and one TRANSFER_IN to to naming from, both
\* with that amount; both sides are applied in the one step.
C6_TransferMovesAmount ==
  (last.op = "transfer" /\ last.err = "" /\ last.args[1] # last.args[2]) =>
    LET from == last.args[1]
        to == last.args[2]
        amount == last.args[3]
    IN  /\ accounts[from].balance = Sub(Before[from].balance, amount)
        /\ accounts[to].balance = Add(Before[to].balance, amount)
        /\ Add(accounts[from].balance, accounts[to].balance)
             = Add(Before[from].balance, Before[to].balance)
        /\ KeepsHistory(from) /\ KeepsHistory(to)
        /\ Len(Appended(from)) = 1
        /\ Appended(from)[1].type = "TRANSFER_OUT"
        /\ Appended(from)[1].to = accounts[to].accountNumber
        /\ Appended(from)[1].amount = amount
        /\ Len(Appended(to)) = 1
        /\ Appended(to)[1].type = "TRANSFER_IN"
        /\ Appended(to)[1].from = accounts[from].accountNumber
        /\ Appended(to)[1].amount = amount

\* C7: transfer of an amount above from.balance throws and has no
\* overdraft-penalty fallback: the registry is exactly as before the call.
C7_TransferHasNoPenaltyFallback ==
  (/\ last.op = "transfer"
   /\ last.args[1] # 0 /\ last.args[2] # 0
   /\ last.args[3].k # "other"
   /\ Gt(last.args[3], Before[last.args[1]].balance)) =>
    /\ last.err # ""
    /\ accounts = Before

\* a transfer refused for insufficient funds, of an amount withdraw would
\* have answered with the penalty
C7_Witness ==
  /\ last.op = "transfer"
  /\ last.err = "Insufficient funds for transfer."
  /\ PositiveNumber(last.args[3])
  /\ last.args[1] # last.args[2]

\* C8: a call that throws leaves the registry and every account's balance,
\* transactions, status and statusHistory as before the call (an absent
\* status counting as ACTIVE, an absent list as empty).
C8_FailureChangesNothing ==
  (last.op # "none" /\ last.err # "") =>
    NormalRegistry(accounts) = NormalRegistry(Before)

\* a call that threw after the lazy assignment of a field
C8_Witness ==
  /\ last.op # "none"
  /\ last.err # ""
  /\ accounts # Before

\* C9: deposit, withdraw, transfer and withdrawWithDailyLimit accept only a
\* finite positive amount: with any other amount they throw and change no
\* account.
C9_OnlyFinitePositiveAmounts ==
  (/\ last.op \in {"deposit", "withdraw", "transfer", "withdrawWithDailyLimit"}
   /\ ~FinitePositive(last.args[Len(last.args)])) =>
    /\ last.err # ""
    /\ NormalRegistry(accounts) = NormalRegistry(Before)

\* the names and the deposit that create is specified to accept
ValidAccountData(accountData) ==
  /\ accountData # Null
  /\ accountData.firstName.str /\ Trim(accountData.firstName.s) # <<>>
  /\ accountData.lastName.str /\ Trim(accountData.lastName.s) # <<>>
  /\ accountData.initialDeposit.k = "num"
  /\ accountData.initialDeposit.v >= 50 * Unit

\* C10: create succeeds exactly when firstName and lastName are non-empty
\* after trimming and initialDeposit is a finite number >= 50; otherwise it
\* throws and the registry is unchanged.  The new account's balance is the
\* initial deposit.
C10_CreateAcceptsExactlyValidData ==
  last.op = "create" =>
    /\ last.err = "" <=> ValidAccountData(last.args[1])
    /\ last.err # "" => accounts = Before
    /\ last.err = "" =>
         /\ Len(accounts) = Len(Before) + 1
         /\ accounts[Len(accounts)].balance = last.args[1].initialDeposit

\* a 10-digit value in 1000000000..9999999999
IsAccountNumber(n) ==
  /\ Len(n) = 10
  /\ n[1] \in 1..9
  /\ \A k \in 2..10 : n[k] \in 0..9

\* C11: any two distinct accounts of the registry have different account
\* numbers, every account number is a 10-digit value in
\* 1000000000..9999999999, and create never gives a new account a number an
\* account of the registry already holds.
C11_AccountNumbersUnique ==
  /\ \A i \in 1..Len(accounts) : IsAccountNumber(accounts[i].accountNumber)
  /\ \A i \in 1..Len(accounts) : \A j \in 1..Len(accounts) :
       i # j => accounts[i].accountNumber # accounts[j].accountNumber
  /\ (last.op = "create" /\ last.err = "") =>
       \A i \in 1..Len(Before) :
         Before[i].accountNumber # last.ret.accountNumber

\* a second account created after the first sample of the loop collided with
\* the number of the first account
C11_Witness ==
  /\ last.op = "create"
  /\ last.err = ""
  /\ Len(accounts) = 2
  /\ accounts[1].accountNumber = AccountNumberOf(FirstSample)
  /\ accounts[2].accountNumber = AccountNumberOf(SecondSample)

\* the action a caller asks for, as updateAccountStatus reads it
RequestedAction(action) == IF action.str THEN ToUpperCase(Trim(action.s)) ELSE <<>>

\* a manager id that is a string and not empty once trimmed
IsManagerId(managerId) == managerId.str /\ Trim(managerId.s) # <<>>

\* the latest entry of an account's status history
LastChange(account) == StatusHistory(account)[Len(StatusHistory(account))]

\* C12: FREEZE with a missing, non-string, empty or whitespace-only manager
\* id throws whatever the status of the account, status and statusHistory
\* staying as they were; FREEZE with a non-empty manager id on an ACTIVE
\* account sets the status FROZEN and appends one FREEZE entry whose by is the
\* trimmed manager id.
C12_FreezeNeedsManager ==
  (/\ last.op = "updateAccountStatus"
   /\ last.args[1] # 0
   /\ RequestedAction(last.args[2]) = FREEZE) =>
    LET i == last.args[1]
        managerId == last.args[3]
    IN  IF ~IsManagerId(managerId)
        THEN /\ last.err = "Manager approval is required to freeze an account."
             /\ Status(accounts[i]) = Status(Before[i])
             /\ StatusHistory(accounts[i]) = StatusHistory(Before[i])
        ELSE Status(Before[i]) = "ACTIVE" =>
               /\ last.err = ""
               /\ Status(accounts[i]) = "FROZEN"
               /\ last.ret.status = "FROZEN"
               /\ StatusHistory(accounts[i])
                    = Append(StatusHistory(Before[i]),
                             [action |-> FREEZE, by |-> Trim(managerId.s),
                              date |-> ToISOString(last.at)])

\* an account frozen by manager " M1", recorded as "M1", on which a FREEZE
\* without approval was then refused
C12_Witness ==
  /\ last.op = "updateAccountStatus"
  /\ last.args[1] # 0
  /\ RequestedAction(last.args[2]) = FREEZE
  /\ ~IsManagerId(last.args[3])
  /\ last.err # ""
  /\ Status(Before[last.args[1]]) = "FROZEN"
  /\ LastChange(Before[last.args[1]]).by = <<"M", "1">>

\* the error of assertAccountNotFrozen
FrozenError == "Account is frozen. Transactions are not allowed."

\* C13: a successful FREEZE leaves the account FROZEN, and it stays FROZEN
\* until an UNFREEZE of it; on a FROZEN account every depositSafe and
\* withdrawWithDailyLimit call throws the frozen-account error and leaves
\* balance and transactions as they were; UNFREEZE makes the status ACTIVE
\* again, and depositSafe of a valid amount on an ACTIVE account succeeds.
C13_FrozenUntilUnfreeze ==
  /\ last.op # "none" =>
       \A i \in 1..Len(Before) :
         Status(accounts[i]) # Status(Before[i]) =>
           /\ last.op = "updateAccountStatus"
           /\ last.args[1] = i
           /\ last.err = ""
           /\ RequestedAction(last.args[2])
                = (IF Status(Before[i]) = "FROZEN" THEN UNFREEZE ELSE FREEZE)
  /\ (/\ last.op = "updateAccountStatus"
      /\ last.args[1] # 0
      /\ last.err = "") =>
       Status(accounts[last.args[1]])
         = (IF RequestedAction(last.args[2]) = FREEZE THEN "FROZEN" ELSE "ACTIVE")
  /\ (/\ last.op = "updateAccountStatus"
      /\ last.args[1] # 0
      /\ RequestedAction(last.args[2]) = UNFREEZE) => last.err = ""
  /\ last.op \in {"depositSafe", "withdrawWithDailyLimit"} =>
       LET i == last.args[1]
       IN  IF Status(Before[i]) = "FROZEN"
           THEN /\ last.err = FrozenError
                /\ accounts[i].balance = Before[i].balance
                /\ Transactions(accounts[i]) = Transactions(Before[i])
           ELSE (last.op = "depositSafe" /\ FinitePositive(last.args[2])) =>
                  /\ last.err = ""
                  /\ accounts[i].balance = Add(Before[i].balance, last.args[2])
                  /\ Len(Appended(i)) = 1
                  /\ Appended(i)[1].type = "DEPOSIT"

\* depositSafe succeeded on an account that had been frozen and unfrozen
C13_Witness ==
  /\ last.op = "depositSafe"
  /\ last.err = ""
  /\ Len(StatusHistory(Before[last.args[1]])) = 2
  /\ StatusHistory(Before[last.args[1]])[1].action = FREEZE
  /\ StatusHistory(Before[last.args[1]])[2].action = UNFREEZE
  /\ Len(Appended(last.args[1])) = 1

\* C14: transferSafe throws the frozen-account error whenever the source or
\* the destination is FROZEN, the balance and the transactions of both
\* staying as they were; when both are ACTIVE it throws, returns and leaves
\* the registry exactly as transfer does on the same arguments.
C14_TransferSafeGuardsBoth ==
  last.op = "transferSafe" =>
    LET from == last.args[1]
        to == last.args[2]
        plain == transferMoney(Before, from, to, last.args[3], ToISOString(last.at))
    IN  IF Status(Before[from]) = "FROZEN" \/ Status(Before[to]) = "FROZEN"
        THEN /\ last.err = FrozenError
             /\ \A i \in {from, to} :
                  /\ accounts[i].balance = Before[i].balance
                  /\ Transactions(accounts[i]) = Transactions(Before[i])
        ELSE /\ last.err = plain.err
             /\ last.ret = plain.ret
             /\ NormalRegistry(accounts) = NormalRegistry(plain.accounts)

\* a transfer the source could pay, refused because the destination alone is
\* frozen
C14_Witness ==
  /\ last.op = "transferSafe"
  /\ last.err = FrozenError
  /\ last.args[1] # last.args[2]
  /\ Status(Before[last.args[1]]) = "ACTIVE"
  /\ Status(Before[last.args[2]]) = "FROZEN"
  /\ FinitePositive(last.args[3])
  /\ Le(last.args[3], Before[last.args[1]].balance)

\* C15: a request for the status the account already has (FREEZE with a
\* manager id on a FROZEN account, UNFREEZE on an ACTIVE one) succeeds and
\* leaves status and statusHistory as they were; so an accepted action asked
\* a second time changes nothing more.
C15_NoOpTransitionNotRecorded ==
  (last.op = "updateAccountStatus" /\ last.args[1] # 0) =>
    LET i == last.args[1]
        action == RequestedAction(last.args[2])
        again == updateAccountStatus(accounts, i, last.args[2], last.args[3],
                                     ToISOString(now))
    IN  /\ (\/ (/\ action = FREEZE
                 /\ IsManagerId(last.args[3])
                 /\ Status(Before[i]) = "FROZEN")
            \/ (action = UNFREEZE /\ Status(Before[i]) = "ACTIVE")) =>
             /\ last.err = ""
             /\ Status(accounts[i]) = Status(Before[i])
             /\ last.ret.status = Status(Before[i])
             /\ StatusHistory(accounts[i]) = StatusHistory(Before[i])
        /\ last.err = "" =>
             /\ again.err = ""
             /\ again.ret = last.ret
             /\ NormalRegistry(again.accounts) = NormalRegistry(accounts)

\* a FREEZE with a manager id accepted on an account that was frozen already
C15_Witness ==
  /\ last.op = "updateAccountStatus"
  /\ last.args[1] # 0
  /\ last.err = ""
  /\ RequestedAction(last.args[2]) = FREEZE
  /\ Status(Before[last.args[1]]) = "FROZEN"
  /\ Len(StatusHistory(accounts[last.args[1]])) = 1

\* C16: UNFREEZE on a FROZEN account succeeds with or without a manager id,
\* sets the status ACTIVE and appends one UNFREEZE entry whose by is
\* "system" when no non-empty manager id is given and the trimmed manager id
\* when one is.
C16_UnfreezeNeedsNoApproval ==
  (/\ last.op = "updateAccountStatus"
   /\ last.args[1] # 0
   /\ RequestedAction(last.args[2]) = UNFREEZE
   /\ Status(Before[last.args[1]]) = "FROZEN") =>
    LET i == last.args[1]
        managerId == last.args[3]
    IN  /\ last.err = ""
        /\ Status(accounts[i]) = "ACTIVE"
        /\ last.ret.status = "ACTIVE"
        /\ StatusHistory(accounts[i])
             = Append(StatusHistory(Before[i]),
                      [action |-> UNFREEZE,
                       by |-> IF IsManagerId(managerId) THEN Trim(managerId.s)
                              ELSE <<"s", "y", "s", "t", "e", "m">>,
                       date |-> ToISOString(last.at)])

\* an account unfrozen with a whitespace-only manager id, recorded as by
\* "system"
C16_Witness ==
  /\ last.op = "updateAccountStatus"
  /\ last.args[1] # 0
  /\ last.err = ""
  /\ Status(Before[last.args[1]]) = "FROZEN"
  /\ Status(accounts[last.args[1]]) = "ACTIVE"
  /\ last.args[3] = Str(<<" ">>)
  /\ LastChange(accounts[last.args[1]]).action = UNFREEZE
  /\ LastChange(accounts[last.args[1]]).by = <<"s", "y", "s", "t", "e", "m">>

\* the error of the daily limit
LimitError == "Daily withdrawal limit exceeded ($500 max)"

\* the UTC calendar day of an instant of the clock
DayOf(ms) == ms \div DayMs

\* the total of the amounts of the WITHDRAWAL records of a history dated on
\* the given UTC calendar day
RECURSIVE WithdrawnOn(_, _)
WithdrawnOn(seq, day) ==
  IF seq = <<>> THEN Num(0)
  ELSE LET t == Head(seq)
           rest == WithdrawnOn(Tail(seq), day)
       IN  IF t.type = "WITHDRAWAL" /\ t.date.day = day THEN Add(t.amount, rest)
           ELSE rest

\* C17: withdrawWithDailyLimit of an amount the validation lets through on
\* an ACTIVE account throws the daily-limit error, changing nothing, exactly
\* when the WITHDRAWAL records dated on the UTC day of the call plus the
\* amount exceed 500; otherwise (a total of exactly 500 included) it throws,
\* returns and leaves the registry as withdraw does.  Records of earlier days
\* do not count.
C17_DailyLimitAt500 ==
  (/\ last.op = "withdrawWithDailyLimit"
   /\ Status(Before[last.args[1]]) = "ACTIVE"
   /\ PositiveNumber(last.args[2])) =>
    LET i == last.args[1]
        amount == last.args[2]
        today == WithdrawnOn(Transactions(Before[i]), DayOf(last.at))
        plain == withdrawal(Before, i, amount, ToISOString(now))
    IN  IF Gt(Add(today, amount), Dollars(500))
        THEN /\ last.err = LimitError
             /\ NormalRegistry(accounts) = NormalRegistry(Before)
        ELSE /\ last.err = plain.err
             /\ last.err # LimitError
             /\ last.ret = plain.ret
             /\ NormalRegistry(accounts) = NormalRegistry(plain.accounts)

\* an amount that, added to the withdrawals of the day before, would exceed
\* 500, withdrawn on the next day
C17_Witness ==
  /\ last.op = "withdrawWithDailyLimit"
  /\ last.err = ""
  /\ DayOf(last.at) = 1
  /\ Len(Appended(last.args[1])) = 1
  /\ Appended(last.args[1])[1].type = "WITHDRAWAL"
  /\ Gt(Add(WithdrawnOn(Transactions(Before[last.args[1]]), 0), last.args[2]),
        Dollars(500))

\* C18: when every withdrawal goes through withdrawWithDailyLimit, the
\* WITHDRAWAL records of an account dated on one UTC calendar day never total
\* more than 500, whether the clock moves between the calls or while one runs
\* and whatever deposits, transfers and freezes come in between.
C18_DayTotalAtMost500 ==
  \A i \in 1..Len(accounts) :
    \A k \in 1..Len(Transactions(accounts[i])) :
      Le(WithdrawnOn(Transactions(accounts[i]),
                     Transactions(accounts[i])[k].date.day),
         Dollars(500))

\* a withdrawal tested against a day that had 300 withdrawn and recorded
\* after midnight, on the next day
C18_Witness ==
  /\ last.op = "withdrawWithDailyLimit"
  /\ last.err = ""
  /\ DayOf(last.at) = 0
  /\ Len(Appended(last.args[1])) = 1
  /\ Appended(last.args[1])[1].type = "WITHDRAWAL"
  /\ Appended(last.args[1])[1].date.day = 1
  /\ WithdrawnOn(Transactions(Before[last.args[1]]), 0) = Dollars(300)

\* C19: the daily limit is tested on the amount asked for and on the
\* WITHDRAWAL records only.  A withdrawWithDailyLimit call on an ACTIVE
\* account whose amount passes the test is never refused for the limit,
\* whatever OVERDRAFT_ATTEMPT records the day holds; when the amount exceeds
\* the balance the call succeeds with the overdraft outcome (penalty 5, one
\* OVERDRAFT_ATTEMPT record), and the total withdrawn of every day is left
\* as it was.
C19_OverdraftUsesNoAllowance ==
  (/\ last.op = "withdrawWithDailyLimit"
   /\ Status(Before[last.args[1]]) = "ACTIVE"
   /\ PositiveNumber(last.args[2])
   /\ Le(Add(WithdrawnOn(Transactions(Before[last.args[1]]), DayOf(last.at)),
             last.args[2]),
         Dollars(500))) =>
    LET i == last.args[1]
        amount == last.args[2]
    IN  /\ last.err # LimitError
        /\ Gt(amount, Before[i].balance) =>
             /\ last.err = ""
             /\ accounts[i].balance = Sub(Before[i].balance, Dollars(5))
             /\ last.ret.balance = accounts[i].balance
             /\ KeepsHistory(i)
             /\ Len(Appended(i)) = 1
             /\ Appended(i)[1].type = "OVERDRAFT_ATTEMPT"
             /\ Appended(i)[1].amount = amount
             /\ Appended(i)[1].penalty = Dollars(5)
             /\ \A day \in {DayOf(last.at), DayOf(now)} :
                  WithdrawnOn(Transactions(accounts[i]), day)
                    = WithdrawnOn(Transactions(Before[i]), day)

\* a second overdraft attempt of 300 on the day of a first one of 300: the
\* two together exceed 500, and the call is not refused
C19_Witness ==
  /\ last.op = "withdrawWithDailyLimit"
  /\ last.err = ""
  /\ last.args[2] = Dollars(300)
  /\ Len(Appended(last.args[1])) = 1
  /\ Appended(last.args[1])[1].type = "OVERDRAFT_ATTEMPT"
  /\ Transactions(Before[last.args[1]]) # <<>>
  /\ Transactions(Before[last.args[1]])[1].type = "OVERDRAFT_ATTEMPT"
  /\ Transactions(Before[last.args[1]])[1].amount = Dollars(300)
  /\ Transactions(Before[last.args[1]])[1].date.day = DayOf(last.at)

\* the first and the last instant a date bound admits
StartOf(bound) ==
  IF bound.kind = "dateOnly" THEN bound.day * DayMs ELSE GetTime(bound.iso)

EndOf(bound) ==
  IF bound.kind = "dateOnly" THEN bound.day * DayMs + (DayMs - 1)
  ELSE GetTime(bound.iso)

\* no type filter: type left out, or given as the empty string
NoTypeFilter(type) == ~type.str \/ type.s = <<>>

\* the dates of transaction t are inside the bounds of the options
InRange(t, options) ==
  /\ options.startDate.kind = "absent"
       \/ GetTime(t.date) >= StartOf(options.startDate)
  /\ options.endDate.kind = "absent"
       \/ GetTime(t.date) <= EndOf(options.endDate)

\* how many entries of seq are equal to t
Count(seq, t) == Cardinality({k \in 1..Len(seq) : seq[k] = t})

\* the sequence result holds exactly the entries of history that Qualifies
\* admits, each as many times as history holds it
ExactlyThose(result, history, Qualifies(_)) ==
  /\ \A k \in 1..Len(result) : Count(history, result[k]) > 0
  /\ \A k \in 1..Len(history) :
       Count(result, history[k])
         = (IF Qualifies(history[k]) THEN Count(history, history[k]) ELSE 0)

EveryTransaction(t) == TRUE

\* C21: the sequence retrieveInRange returns is sorted by date descending
\* (of two adjacent entries the first has a date greater than or equal to
\* the second's), and with no filter and no bound it holds every transaction
\* of the account.
C21_NewestFirst ==
  (last.op = "retrieveInRange" /\ last.err = "") =>
    LET options == last.args[2]
    IN  /\ \A k \in 1..(Len(last.ret) - 1) :
             GetTime(last.ret[k].date) >= GetTime(last.ret[k + 1].date)
        /\ (/\ ~options.type.str
            /\ options.startDate.kind = "absent"
            /\ options.endDate.kind = "absent") =>
             ExactlyThose(last.ret, Transactions(Before[last.args[1]]),
                          EveryTransaction)

\* the two transactions of an account returned in the reverse of the order
\* they were appended in, the later one first
C21_Witness ==
  /\ last.op = "retrieveInRange"
  /\ last.err = ""
  /\ Len(last.ret) = 2
  /\ last.ret[1] = Transactions(Before[last.args[1]])[2]
  /\ last.ret[2] = Transactions(Before[last.args[1]])[1]
  /\ GetTime(last.ret[1].date) > GetTime(last.ret[2].date)

\* C22: retrieveInRange, whether it returns or throws, leaves the balance of
\* the account and the contents and the order of its transactions as they
\* were, and every other account too; what it returns is a sequence of its
\* own, so the sort that orders it does not reorder the history of the
\* account.
C22_RetrievalMutatesNothing ==
  last.op = "retrieveInRange" =>
    /\ NormalRegistry(accounts) = NormalRegistry(Before)
    /\ last.args[1] # 0 =>
         /\ accounts[last.args[1]].balance = Before[last.args[1]].balance
         /\ Transactions(accounts[last.args[1]])
              = Transactions(Before[last.args[1]])

\* a history returned whole in another order than the account keeps it in
C22_Witness ==
  /\ last.op = "retrieveInRange"
  /\ last.err = ""
  /\ Len(last.ret) = Len(Transactions(accounts[last.args[1]]))
  /\ last.ret # Transactions(accounts[last.args[1]])
  /\ Transactions(accounts[last.args[1]]) = Transactions(Before[last.args[1]])

\* t.type passes the type filter of the options
TypeMatches(t, options) ==
  NoTypeFilter(options.type)
    \/ TypeChars(t.type) = ToUpperCase(Trim(options.type.s))

\* t is among the entries of seq
Holds(seq, t) == \E k \in 1..Len(seq) : seq[k] = t

\* C23: a bare calendar date as startDate stands for the first millisecond of
\* its day and as endDate for the last one.  Of the transactions that pass
\* the other conditions, a successful call returns those dated on the endDate
\* day or before it, at whatever instant of the day, and none dated later
\* (00:00:00.000 of the next day is left out); likewise it returns those
\* dated on the startDate day or after it.  With startDate equal to endDate
\* (and the type left out or not blank) the call succeeds and returns the
\* transactions of that day.
C23_BareDatesCoverTheDay ==
  (last.op = "retrieveInRange" /\ last.args[1] # 0) =>
    LET options == last.args[2]
        history == Transactions(Before[last.args[1]])
        start == options.startDate
        end == options.endDate
    IN  /\ (last.err = "" /\ end.kind = "dateOnly") =>
             \A k \in 1..Len(history) :
               (/\ TypeMatches(history[k], options)
                /\ start.kind = "absent"
                     \/ GetTime(history[k].date) >= StartOf(start)) =>
                 (Holds(last.ret, history[k]) <=> history[k].date.day <= end.day)
        /\ (last.err = "" /\ start.kind = "dateOnly") =>
             \A k \in 1..Len(history) :
               (/\ TypeMatches(history[k], options)
                /\ end.kind = "absent"
                     \/ GetTime(history[k].date) <= EndOf(end)) =>
                 (Holds(last.ret, history[k]) <=> history[k].date.day >= start.day)
        /\ (/\ start.kind = "dateOnly"
            /\ end = start
            /\ ~options.type.str \/ Trim(options.type.s) # <<>>) =>
             /\ last.err = ""
             /\ \A k \in 1..Len(history) :
                  TypeMatches(history[k], options) =>
                    (Holds(last.ret, history[k])
                       <=> history[k].date.day = start.day)

\* startDate and endDate both day 0: the transaction of 23:59:59.999 is
\* returned, the one of 00:00:00.000 of day 1 is not
C23_Witness ==
  /\ last.op = "retrieveInRange"
  /\ last.err = ""
  /\ last.args[2].startDate = [kind |-> "dateOnly", day |-> 0]
  /\ last.args[2].endDate = [kind |-> "dateOnly", day |-> 0]
  /\ Len(Transactions(Before[last.args[1]])) = 2
  /\ Transactions(Before[last.args[1]])[1].date = ToISOString(DayMs - 1)
  /\ Transactions(Before[last.args[1]])[2].date = ToISOString(DayMs)
  /\ last.ret = <<Transactions(Before[last.args[1]])[1]>>

\* C24: retrieveInRange with type equal to the empty string takes it for no
\* type filter: it throws or returns as the call with the same bounds and
\* type left out does, and returns the same sequence.
C24_EmptyTypeIsNoFilter ==
  (/\ last.op = "retrieveInRange"
   /\ last.args[1] # 0
   /\ last.args[2].type = Str(<<>>)) =>
    LET omitted ==
          retrieveTransactionsInRange(
            variant, Before, last.args[1],
            [last.args[2] EXCEPT !.type = NotAString])
    IN  /\ last.err = omitted.err
        /\ last.ret = omitted.ret

\* C25: accrueInterest on a balance less than or equal to 500, exactly 500
\* included, returns without error and changes nothing: every account keeps
\* its balance and its transactions, and the balance returned is the balance
\* the account had.  Each call starts from the registry the call before it
\* left, so any number of calls in a row leaves the account as it was.
C25_NoInterestUpTo500 ==
  (/\ last.op = "accrueInterest"
   /\ Le(Before[last.args[1]].balance, Dollars(500))) =>
    LET i == last.args[1]
    IN  /\ last.err = ""
        /\ NormalRegistry(accounts) = NormalRegistry(Before)
        /\ accounts[i].balance = Before[i].balance
        /\ Appended(i) = <<>>
        /\ last.ret.balance = Before[i].balance

\* accrueInterest has returned for an account holding exactly 500, reached by
\* two withdrawals of 50 from 600
C25_Witness ==
  /\ last.op = "accrueInterest"
  /\ Before[last.args[1]].balance = Dollars(500)
  /\ accounts[last.args[1]].balance = Dollars(500)
  /\ Len(Transactions(accounts[last.args[1]])) = 2
  /\ last.ret.balance = Dollars(500)

\* C26: the result of accrueInterest carries interestApplied, equal to the
\* interest added, and no message exactly when the balance before the call
\* was greater than 500; it carries a message and no interestApplied exactly
\* when that balance was less than or equal to 500.
C26_ResultShapeFollowsBalance ==
  last.op = "accrueInterest" =>
    LET balance == Before[last.args[1]].balance
        fields == DOMAIN last.ret
    IN  /\ Gt(balance, Dollars(500))
              <=> /\ "interestApplied" \in fields
                  /\ "message" \notin fields
        /\ "interestApplied" \in fields
              => last.ret.interestApplied = InterestOf(balance)
        /\ Le(balance, Dollars(500))
              <=> /\ "message" \in fields
                  /\ "interestApplied" \notin fields

\* the status changes account i had before the latest call are still there
KeepsStatusHistory(i) ==
  /\ Len(StatusHistory(accounts[i])) >= Len(StatusHistory(Before[i]))
  /\ SubSeq(StatusHistory(accounts[i]), 1, Len(StatusHistory(Before[i])))
       = StatusHistory(Before[i])

\* C27: transactions and status changes are append-only.  Every call of the
\* engine, whether it returns or throws, keeps every account of the registry
\* and leaves the transactions and the statusHistory each account had before
\* the call unchanged and at the same positions: the sequence before the call
\* is a prefix of the sequence after it.
C27_AppendOnly ==
  last.op # "none" =>
    /\ Len(accounts) >= Len(Before)
    /\ \A i \in 1..Len(Before) :
         /\ accounts[i].accountNumber = Before[i].accountNumber
         /\ KeepsHistory(i)
         /\ KeepsStatusHistory(i)

\* a second status change has been appended to an account that holds a
\* transaction and a status change already
C27_Witness ==
  /\ last.op = "updateAccountStatus"
  /\ last.args[1] # 0
  /\ Len(Transactions(Before[last.args[1]])) = 1
  /\ Len(StatusHistory(Before[last.args[1]])) = 1
  /\ Len(StatusHistory(accounts[last.args[1]])) = 2
  /\ StatusHistory(accounts[last.args[1]])[1] = StatusHistory(Before[last.args[1]])[1]
  /\ Transactions(accounts[last.args[1]]) = Transactions(Before[last.args[1]])

\* the history the latest audit was made on, and the alerts it returned
Audited == Transactions(Before[last.args[1]])

IsHighValueAlert(alert) == alert.rule = "High-value transaction"

IsRapidAlert(alert) == alert.rule = "Rapid withdrawals"

Above10000(t) == Gt(t.amount, Dollars(10000))

\* the coarse category of a type of record
Category(type) ==
  CASE type \in {"TRANSFER_IN", "TRANSFER_OUT"} -> "transfer"
    [] type = "WITHDRAWAL" -> "withdrawal"
    [] type = "DEPOSIT" -> "deposit"
    [] OTHER -> "transaction"

\* C28: checkForSuspiciousActivity returns one high-value alert for each
\* transaction whose amount is strictly greater than 10000 and for no other
\* (an amount of exactly 10000 gives none), whatever the type of the
\* transaction; the alert names the amount and the category of the type:
\* transfer for TRANSFER_IN and TRANSFER_OUT, withdrawal for WITHDRAWAL,
\* deposit for DEPOSIT, transaction for any other type.  Every alert is of
\* one of the two rules, and isSuspicious is true iff there is an alert.
C28_HighValueAlerts ==
  last.op = "checkForSuspiciousActivity" =>
    LET large == SelectSeq(Audited, Above10000)
        alerts == last.ret.alerts
        high == SelectSeq(alerts, IsHighValueAlert)
    IN  /\ last.err = ""
        /\ Len(high) = Len(large)
        /\ \A k \in 1..Len(large) :
             /\ high[k].amount = large[k].amount
             /\ high[k].kind = Category(large[k].type)
        /\ \A k \in 1..Len(alerts) :
             IsHighValueAlert(alerts[k]) \/ IsRapidAlert(alerts[k])
        /\ last.ret.isSuspicious <=> Len(alerts) > 0

\* the audit of a deposit of 10001, a withdrawal of exactly 10000 and an
\* overdraft attempt of 10001 has returned two alerts, for the deposit and
\* for the attempt
C28_Witness ==
  /\ last.op = "checkForSuspiciousActivity"
  /\ Len(Audited) = 3
  /\ Audited[1].type = "DEPOSIT" /\ Audited[1].amount = Dollars(10001)
  /\ Audited[2].type = "WITHDRAWAL" /\ Audited[2].amount = Dollars(10000)
  /\ Audited[3].type = "OVERDRAFT_ATTEMPT" /\ Audited[3].amount = Dollars(10001)
  /\ Len(last.ret.alerts) = 2
  /\ last.ret.alerts[1].kind = "deposit"
  /\ last.ret.alerts[2].kind = "transaction"
  /\ last.ret.isSuspicious

IsSmallWithdrawalRecord(t) == t.type = "WITHDRAWAL" /\ Le(t.amount, Dollars(500))

\* the sets of three or more entries of a sequence of records whose
\* timestamps lie within five minutes of one another
WindowsOf(records) ==
  {window \in SUBSET (1..Len(records)) :
     /\ Cardinality(window) >= 3
     /\ \A a \in window, b \in window :
          GetTime(records[a].date) - GetTime(records[b].date) <= 5 * 60 * 1000}

\* C29: checkForSuspiciousActivity returns at most one rapid-withdrawal
\* alert, and returns one if and only if, among the WITHDRAWAL records of the
\* account with an amount of 500 or less, three or more have timestamps that
\* span at most five minutes (exactly five minutes included).  WITHDRAWAL
\* records above 500 and records of other types are not among them.
C29_OneRapidAlert ==
  last.op = "checkForSuspiciousActivity" =>
    LET rapid == SelectSeq(last.ret.alerts, IsRapidAlert)
        windows == WindowsOf(SelectSeq(Audited, IsSmallWithdrawalRecord))
    IN  /\ Len(rapid) <= 1
        /\ Len(rapid) = 1 <=> windows # {}

\* the audit of four withdrawals of 500, the first three spanning exactly
\* five minutes and the last three less, has returned one alert
C29_Witness ==
  /\ last.op = "checkForSuspiciousActivity"
  /\ Len(Audited) = 4
  /\ \A k \in 1..4 : IsSmallWithdrawalRecord(Audited[k])
  /\ GetTime(Audited[3].date) - GetTime(Audited[1].date) = 5 * 60 * 1000
  /\ GetTime(Audited[4].date) - GetTime(Audited[2].date) < 5 * 60 * 1000
  /\ Len(SelectSeq(last.ret.alerts, IsRapidAlert)) = 1
  /\ last.ret.alerts[1].count = 3
  /\ last.ret.alerts[1].minutes = 5
  /\ last.ret.isSuspicious

\* the characters of the three classes of the checks
UpperSet == {UpperLetters[i] : i \in 1..26}

LowerSet == {LowerLetters[i] : i \in 1..26}

DigitSet == {DigitChars[i] : i \in 1..10}

\* the checks a string violates, each with its reason
ViolatedReasons(s) ==
  LET chars == {s[i] : i \in 1..Len(s)}
      lowered == ToLowerCase(s)
  IN  {check.reason :
         check \in
           {c \in
              {[violated |-> Len(s) < 12,
                reason |-> "Password must be at least 12 characters"],
               [violated |-> chars \cap UpperSet = {},
                reason |-> "Password must contain an uppercase letter"],
               [violated |-> chars \cap LowerSet = {},
                reason |-> "Password must contain a lowercase letter"],
               [violated |-> chars \cap DigitSet = {},
                reason |-> "Password must contain a number"],
               [violated |-> chars \subseteq (UpperSet \cup LowerSet \cup DigitSet),
                reason |-> "Password must contain a special character"],
               [violated |-> \/ lowered \in commonPasswords
                             \/ \E k \in 1..Len(s) :
                                  /\ k + 7 <= Len(s)
                                  /\ SubSeq(lowered, k, k + 7)
                                       = <<"p", "a", "s", "s", "w", "o", "r", "d">>,
                reason |-> "Password is too common"]} : c.violated}}

\* C30: validatePassword returns valid exactly when the input is a string of
\* 12 characters or more that holds an uppercase letter, a lowercase letter,
\* a digit and a character outside A-Z, a-z, 0-9, and whose lower-cased form
\* is neither on the denylist nor holds "password".  Otherwise it returns
\* invalid with one reason for every check violated, all of them and no
\* other; an input that is not a string gets the single reason "Password
\* must be a string".
C30_PasswordChecks ==
  last.op = "validatePassword" =>
    LET password == last.args[1]
        result == last.ret
    IN  /\ last.err = ""
        /\ accounts = Before
        /\ IF ~password.str
           THEN result = [valid |-> FALSE,
                          reasons |-> <<"Password must be a string">>]
           ELSE LET expected == ViolatedReasons(password.s)
                IN  /\ result.valid <=> expected = {}
                    /\ ~result.valid =>
                         /\ {result.reasons[k] : k \in 1..Len(result.reasons)}
                              = expected
                         /\ Len(result.reasons) = Cardinality(expected)

\* a password of exactly 12 characters that passes every check has been
\* found valid
C30_Witness ==
  /\ last.op = "validatePassword"
  /\ last.args[1].str
  /\ Len(last.args[1].s) = 12
  /\ ViolatedReasons(last.args[1].s) = {}
  /\ last.ret = [valid |-> TRUE]

\* C31: in every state the ledger calls reach, the newBalance of the
\* transaction an account appended last is the balance of the account, and
\* the newBalance of every transaction after the first is the newBalance of
\* the transaction before it with its own signed effect applied.
C31_NewBalanceTracksBalance ==
  \A i \in 1..Len(accounts) :
    LET history == Transactions(accounts[i])
    IN  /\ history # <<>> =>
             history[Len(history)].newBalance = accounts[i].balance
        /\ \A k \in 2..Len(history) :
             history[k].newBalance
               = ApplyEffect(history[k - 1].newBalance, history[k])

\* C32: in every state reached through updateAccountStatus and the guarded
\* calls, the entries of every statusHistory alternate FREEZE, UNFREEZE,
\* FREEZE, ... from a first FREEZE on, and an account is FROZEN if and only
\* if its statusHistory is non-empty and ends with a FREEZE, that is if and
\* only if the history has an odd length.
C32_StatusHistoryAlternates ==
  \A i \in 1..Len(accounts) :
    LET history == StatusHistory(accounts[i])
        frozen == Status(accounts[i]) = "FROZEN"
    IN  /\ \A k \in 1..Len(history) :
             history[k].action = (IF k % 2 = 1 THEN FREEZE ELSE UNFREEZE)
        /\ frozen <=> (history # <<>> /\ history[Len(history)].action = FREEZE)
        /\ frozen <=> Len(history) % 2 = 1

\* an account frozen and unfrozen again is ACTIVE with a history of two
C32_Witness ==
  \E i \in 1..Len(accounts) :
    /\ Len(StatusHistory(accounts[i])) = 2
    /\ StatusHistory(accounts[i])[1].action = FREEZE
    /\ StatusHistory(accounts[i])[2].action = UNFREEZE
    /\ Status(accounts[i]) = "ACTIVE"
    /\ last.op = "updateAccountStatus"
    /\ last.args[1] = i
    /\ Len(StatusHistory(Before[i])) = 1

\* C33: in every state, every FREEZE entry of every statusHistory has a by
\* that is a non-empty, trimmed manager id and is not the word "system";
\* "system" stands on UNFREEZE entries only.
C33_FreezeNeverBySystem ==
  \A i \in 1..Len(accounts) :
    \A k \in 1..Len(StatusHistory(accounts[i])) :
      LET entry == StatusHistory(accounts[i])[k]
      IN  /\ entry.action = FREEZE =>
               /\ entry.by # <<>>
               /\ Trim(entry.by) = entry.by
               /\ entry.by # <<"s", "y", "s", "t", "e", "m">>
          /\ entry.by = <<"s", "y", "s", "t", "e", "m">> =>
               entry.action = UNFREEZE

\* the amounts of the records of an account of one transfer type naming
\* the account number other, in the order of the history
RECURSIVE TransferAmounts(_, _, _)
TransferAmounts(history, type, other) ==
  IF history = <<>> THEN <<>>
  ELSE LET t == Head(history)
           names == IF type = "TRANSFER_OUT" THEN t.to ELSE t.from
       IN  (IF t.type = type /\ names = other THEN <<t.amount>> ELSE <<>>)
           \o TransferAmounts(Tail(history), type, other)

RECURSIVE SumOfBalances(_)
SumOfBalances(accs) ==
  IF accs = <<>> THEN Num(0)
  ELSE Add(Head(accs).balance, SumOfBalances(Tail(accs)))

\* the TRANSFER_OUT records of A naming B and the TRANSFER_IN records of B
\* naming A are as many and carry the same amounts
TransfersPaired ==
  \A a \in 1..Len(accounts), b \in 1..Len(accounts) :
    TransferAmounts(Transactions(accounts[a]), "TRANSFER_OUT",
                    accounts[b].accountNumber)
      = TransferAmounts(Transactions(accounts[b]), "TRANSFER_IN",
                        accounts[a].accountNumber)

\* C34: in every state the transfer records are paired across the registry:
\* for every ordered pair of accounts (A, B) the TRANSFER_OUT records of A
\* naming B and the TRANSFER_IN records of B naming A are as many and carry
\* the same amounts; and a transfer, returning or throwing, leaves the sum of
\* the balances of the registry as it was.
C34_TransfersPairedAndNeutral ==
  /\ TransfersPaired
  /\ last.op = "transfer" => SumOfBalances(accounts) = SumOfBalances(Before)

\* a registry with every status that is set put back to ACTIVE
Thawed(accs) ==
  [i \in 1..Len(accs) |->
     IF HasStatus(accs[i]) THEN SetField(accs[i], "status", "ACTIVE")
     ELSE accs[i]]

\* what the latest ledger call does on the registry accs
LedgerCallOn(accs) ==
  LET date == ToISOString(last.at)
  IN  CASE last.op = "deposit" ->
             addDeposit(accs, last.args[1], last.args[2], date)
        [] last.op = "withdraw" ->
             withdrawal(accs, last.args[1], last.args[2], date)
        [] last.op = "transfer" ->
             transferMoney(accs, last.args[1], last.args[2], last.args[3], date)
        [] last.op = "accrueInterest" ->
             calculateSaving(variant, accs, last.args[1], date)

\* C35: deposit, withdraw, transfer and accrueInterest do not look at the
\* status: whatever accounts are FROZEN, the call throws or returns, returns
\* the value, and leaves every balance and every list of transactions as the
\* same call does on the registry with all accounts ACTIVE; and it leaves
\* every status and statusHistory as it was.
C35_LedgerIgnoresStatus ==
  last.op \in {"deposit", "withdraw", "transfer", "accrueInterest"} =>
    LET active == LedgerCallOn(Thawed(Before))
    IN  /\ last.err = active.err
        /\ last.ret = active.ret
        /\ Len(accounts) = Len(active.accounts)
        /\ \A i \in 1..Len(accounts) :
             /\ accounts[i].balance = active.accounts[i].balance
             /\ Transactions(accounts[i]) = Transactions(active.accounts[i])
             /\ Status(accounts[i]) = Status(Before[i])
             /\ StatusHistory(accounts[i]) = StatusHistory(Before[i])

\* a deposit made on a FROZEN account has returned, the balance raised and a
\* DEPOSIT appended, the account still FROZEN
C35_Witness ==
  /\ last.op = "deposit"
  /\ last.err = ""
  /\ Status(Before[last.args[1]]) = "FROZEN"
  /\ Status(accounts[last.args[1]]) = "FROZEN"
  /\ Len(Appended(last.args[1])) = 1
  /\ accounts[last.args[1]].balance
       = Add(Before[last.args[1]].balance, last.args[2])

\* C36: plain withdraw is never refused for the daily limit: with a valid
\* amount within the balance it returns and appends a WITHDRAWAL whatever the
\* day already holds, raising the total withdrawn on the day by the amount.
\* The records it appends count for withdrawWithDailyLimit: on an ACTIVE
\* account that call is refused for the limit exactly when the WITHDRAWAL
\* records of the day, whichever call appended them, plus the amount exceed
\* 500.  (Mixed on one account, the two let the total of a day pass 500: the
\* witness.)
C36_PlainWithdrawIsUncapped ==
  /\ last.op = "withdraw" =>
       LET i == last.args[1]
           amount == last.args[2]
           day == DayOf(last.at)
       IN  /\ last.err # LimitError
           /\ (PositiveNumber(amount) /\ ~Gt(amount, Before[i].balance)) =>
                /\ last.err = ""
                /\ Len(Appended(i)) = 1
                /\ Appended(i)[1].type = "WITHDRAWAL"
                /\ WithdrawnOn(Transactions(accounts[i]), day)
                     = Add(WithdrawnOn(Transactions(Before[i]), day), amount)
  /\ (/\ last.op = "withdrawWithDailyLimit"
      /\ Status(Before[last.args[1]]) = "ACTIVE"
      /\ PositiveNumber(last.args[2])) =>
       (last.err = LimitError
          <=> Gt(Add(WithdrawnOn(Transactions(Before[last.args[1]]),
                                 DayOf(last.at)),
                     last.args[2]),
                 Dollars(500)))

\* a plain withdrawal of 600 has put the total of the day above 500, and a
\* withdrawWithDailyLimit of 50 made after it on the same day is refused for
\* the limit
C36_Witness ==
  /\ last.op = "withdrawWithDailyLimit"
  /\ last.err = LimitError
  /\ last.args[2] = Dollars(50)
  /\ Len(Transactions(accounts[last.args[1]])) = 2
  /\ Transactions(accounts[last.args[1]])[2].type = "WITHDRAWAL"
  /\ Transactions(accounts[last.args[1]])[2].amount = Dollars(600)
  /\ Gt(WithdrawnOn(Transactions(accounts[last.args[1]]), DayOf(last.at)),
        Dollars(500))

\* the timestamps of the small withdrawals of the audited history, which
\* the ledger writes in the order of time
SmallTimes ==
  LET small == SelectSeq(Audited, IsSmallWithdrawalRecord)
  IN  [k \in 1..Len(small) |-> GetTime(small[k].date)]

\* the starts of the triples of successive small withdrawals that span at
\* most five minutes
TripleStarts ==
  {k \in 1..Len(SmallTimes) :
     k + 2 <= Len(SmallTimes) /\ SmallTimes[k + 2] - SmallTimes[k] <= 5 * 60 * 1000}

\* a span to the nearest minute, halves up, and at least one
NearestMinute(span) ==
  LET nearest == (2 * span + 60000) \div 120000
  IN  IF nearest < 1 THEN 1 ELSE nearest

\* C37: whenever checkForSuspiciousActivity returns a rapid-withdrawal
\* alert, the count it states is exactly 3 and the minutes it states are the
\* span, to the nearest minute and at least 1, of the earliest-starting
\* triple of time-ordered small withdrawals that spans at most five minutes,
\* also when more than three small withdrawals lie inside one window.
C37_AlertStatesFirstTriple ==
  last.op = "checkForSuspiciousActivity" =>
    \A k \in 1..Len(last.ret.alerts) :
      IsRapidAlert(last.ret.alerts[k]) =>
        /\ \A a \in 1..Len(SmallTimes), b \in 1..Len(SmallTimes) :
             a < b => SmallTimes[a] <= SmallTimes[b]
        /\ TripleStarts # {}
        /\ LET first == CHOOSE start \in TripleStarts :
                          \A other \in TripleStarts : start <= other
           IN  /\ last.ret.alerts[k].count = 3
               /\ last.ret.alerts[k].minutes
                    = NearestMinute(SmallTimes[first + 2] - SmallTimes[first])

\* four small withdrawals inside two and a half minutes, the first three at
\* one instant: the alert states 3 withdrawals within 1 minute
C37_Witness ==
  /\ last.op = "checkForSuspiciousActivity"
  /\ Len(SmallTimes) = 4
  /\ SmallTimes[3] - SmallTimes[1] = 0
  /\ SmallTimes[4] - SmallTimes[1] = 150000
  /\ Len(last.ret.alerts) = 1
  /\ last.ret.alerts[1].count = 3
  /\ last.ret.alerts[1].minutes = 1

\* what a state says of an account: balance, status and the type, amount
\* and newBalance of every transaction
StateOf(account) ==
  [balance |-> account.balance,
   status |-> Status(account),
   history |-> [k \in 1..Len(Transactions(account)) |->
                  [type |-> Transactions(account)[k].type,
                   amount |-> Transactions(account)[k].amount,
                   newBalance |-> Transactions(account)[k].newBalance]]]

\* C38: the backend and the browser copy are interchangeable on state.  Run
\* on the same registry at the same clock, a call leaves every account with
\* the same balance, status and transaction history (types, amounts,
\* newBalance) in both copies; create, deposit, withdraw, transfer and
\* updateAccountStatus are the same code in both, so this is said of
\* accrueInterest, whose code differs.
C38_VariantsAgreeOnState ==
  last.op = "accrueInterest" =>
    LET date == ToISOString(last.at)
        backend == calculateSaving("backend", Before, last.args[1], date).accounts
        browser == calculateSaving("browser", Before, last.args[1], date).accounts
    IN  \A i \in 1..Len(Before) : StateOf(backend[i]) = StateOf(browser[i])

IsOverdraftAttempt(t) == t.type = "OVERDRAFT_ATTEMPT"

\* C39: on an account whose balance is negative, every withdraw of an
\* amount the validation lets through takes the overdraft branch, charging a
\* further 5 and appending one OVERDRAFT_ATTEMPT, and every transfer out of
\* it throws for insufficient funds and changes nothing; a withdraw of an
\* amount the balance covers (after deposits or incoming transfers) is a
\* plain WITHDRAWAL again.  There is no floor: of the OVERDRAFT_ATTEMPT
\* records that follow one another in a history, the n-th after a given one
\* records that one's newBalance lowered by exactly 5n.
C39_OverdrawnStaysOverdrawn ==
  /\ (/\ last.op = "withdraw"
      /\ PositiveNumber(last.args[2])
      /\ IsNegative(Before[last.args[1]].balance)) =>
       LET i == last.args[1]
       IN  /\ last.err = ""
           /\ accounts[i].balance = Sub(Before[i].balance, Dollars(5))
           /\ KeepsHistory(i)
           /\ Len(Appended(i)) = 1
           /\ Appended(i)[1].type = "OVERDRAFT_ATTEMPT"
           /\ Appended(i)[1].newBalance = accounts[i].balance
  /\ (/\ last.op = "transfer"
      /\ last.args[1] # 0 /\ last.args[2] # 0
      /\ PositiveNumber(last.args[3])
      /\ IsNegative(Before[last.args[1]].balance)) =>
       /\ last.err = "Insufficient funds for transfer."
       /\ accounts = Before
  /\ (/\ last.op = "withdraw"
      /\ PositiveNumber(last.args[2])
      /\ ~Gt(last.args[2], Before[last.args[1]].balance)) =>
       /\ last.err = ""
       /\ Len(Appended(last.args[1])) = 1
       /\ Appended(last.args[1])[1].type = "WITHDRAWAL"
  /\ \A i \in 1..Len(accounts) :
       LET history == Transactions(accounts[i])
       IN  \A j \in 1..Len(history), k \in 1..Len(history) :
             (j < k /\ \A m \in j..k : IsOverdraftAttempt(history[m])) =>
               history[k].newBalance
                 = Sub(history[j].newBalance, Dollars(5 * (k - j)))

\* a third overdraft attempt in a row on an account emptied by a withdrawal
\* has taken the balance from -10 to -15
C39_Witness ==
  /\ last.op = "withdraw"
  /\ last.err = ""
  /\ Before[last.args[1]].balance = Dollars(-10)
  /\ accounts[last.args[1]].balance = Dollars(-15)
  /\ Len(Transactions(accounts[last.args[1]])) = 4
  /\ \A m \in 2..4 : IsOverdraftAttempt(Transactions(accounts[last.args[1]])[m])

====
